---- MODULE Spec2Model ----
(***************************************************************************)
(* Model of the multi-intent routing and planning pipeline of the Shopware *)
(* AI shopping agent (src/handlers/gpt_handlers/gpt_agents).               *)
(*                                                                         *)
(*   Spec        one turn of AgentCoordinator (agent_coordinator.py): the  *)
(*               greeting/unclear branch and the per-intent loop, each     *)
(*               agent call split into its start and its completion.       *)
(*   SpecSearch  one call of SearchAgent.plan_search (search_agent.py):    *)
(*               required-field gate, Communication delegation, storefront *)
(*               executor.                                                 *)
(*                                                                         *)
(* Python values: None is the string PyNone; a dict whose keys may be      *)
(* absent is a record with has_<key> flags; a list is a sequence.          *)
(***************************************************************************)
EXTENDS Naturals, Sequences, FiniteSets, TLC

\* ------------------------------------------------------------------ bounds
\* Longest intent sequence the classifier hands to the router.
MaxIntents == 3

\* ------------------------------------------------------------ Python values
PyNone == "<None>"

\* ------------------------------------------------------------------ state
\* The coordinator's turn (agent_coordinator.py).
VARIABLES
  binding,          \* what INTENT_TO_AGENT holds: "shipped" or "contract" agents
  header_set,       \* set_header_info has been called on the coordinator
  languageId,       \* header_info.languageId
  primary_intent,   \* intent_data.primary_intent
  intent_sequence,  \* intent_data.intent_sequence
  message_parts,    \* intent_data.message_parts
  pc,               \* position of the turn
  i,                \* loop index of process_intent_sequences (0-based)
  sequence_results, \* the list built by process_intent_sequences
  context_data,     \* the accumulated context: step number k stands for the
                    \* key "step_{k}_results"
  calls,            \* history: the plan_and_execute calls the router started
  outcomes,         \* history: how each call of the loop ended
  inflight,         \* history: calls started and not yet returned or raised
  response          \* what the turn returned

routerVars ==
  << binding, header_set, languageId, primary_intent, intent_sequence,
     message_parts, pc, i, sequence_results, context_data, calls, outcomes,
     inflight, response >>

\* One call of SearchAgent.plan_search (search_agent.py).
VARIABLES
  s_pc,             \* position of the plan_search call
  s_header,         \* header_info: PyNone or a SimpleHeaderInfo
  s_schema,         \* get_action_schema(action) of the catalog
  s_hints,          \* parsed_intents
  s_action,         \* search_response.action
  s_payload,        \* the payload dict (extracted, then merged and normalized)
  s_missing,        \* search_response.missing
  s_comm_calls,     \* history: seeds of the plan_communication calls started
  s_executor_calls, \* history: _execute_shopware_action calls entered
  s_client_calls,   \* history: ProductClient calls started
  s_exception,      \* history: where the last exception was raised
  s_reply,          \* history: what plan_communication returned
  s_communication,  \* search_response.communication
  s_shopware        \* search_response.shopware_response

searchVars ==
  << s_pc, s_header, s_schema, s_hints, s_action, s_payload, s_missing,
     s_comm_calls, s_executor_calls, s_client_calls, s_exception, s_reply,
     s_communication, s_shopware >>

\* Lookups of map_intent_to_agent.
VARIABLES
  lookups           \* history: the (intent, agent) pairs map_intent_to_agent answered

mapVars == << lookups >>

\* One conversion of a flat payload to SearchPayload and back (search_agent.py).
VARIABLES
  conv              \* the flat payload x, the typed payload, the dict that came back

\* The /chat endpoint up to classification (main.py).
VARIABLES
  inbound           \* the body's customerMessage, the validated field, the calls made

\* One call of ProductClient.search_products (shopware_product_client.py).
VARIABLES
  http              \* the arguments, the requests sent, the statuses received

\* The storefront calls of one session through SearchAgent's executor.
VARIABLES
  session           \* header_info.contextToken, the calls made, the tokens returned

\* process_chat_request up to the routing decision (agent_coordinator.py,
\* intent_agent.py).
VARIABLES
  classify          \* the completion calls made, what was parsed, the agents invoked

\* Loading the function catalog at import of multi_intent.py.
VARIABLES
  catalog           \* the listed sources, the loop position, the metadata merged so far

\* The action schemas an agent holds and the parameter lookups made on them.
VARIABLES
  schemas           \* the file's content, self.tools, the answers given so far

\* Two turns running process_intent_sequences on one coordinator.
VARIABLES
  turns             \* self.header_info of the coordinator and each turn's locals

\* The context dict handed to the agents of one turn as their seed.
VARIABLES
  handoff           \* the dict object context_data, the seeds seen, the loop position

\* The memory collaborator as chat() and build_context_outline use it.
VARIABLES
  recall            \* the entry taken, the search results, the outline or the error

\* The components modelled one record each.
\* _missing_required_fields applied to one schema entry and one payload.
VARIABLES
  gate              \* the schema entry, the payload dict, the list computed

\* The typed payload of an extraction through the hint merge and normalization.
VARIABLES
  merge             \* the extraction, the hints, the payload after each step

\* One call of a storefront operation that needs the session's context token.
VARIABLES
  identity          \* the operation, its arguments, the requests sent, the outcome

\* The GraphitiMemory wrapper over its life.
VARIABLES
  memory            \* self.client, the clients made and closed, the calls so far

auxVars ==
  << conv, inbound, http, session, classify, catalog, schemas, turns, handoff, recall,
     gate, merge, identity, memory >>

\* Every component record but the named one stays as it is.
AuxUnchangedExcept(name) ==
  /\ (name # "conv" => UNCHANGED conv)
  /\ (name # "inbound" => UNCHANGED inbound)
  /\ (name # "http" => UNCHANGED http)
  /\ (name # "session" => UNCHANGED session)
  /\ (name # "classify" => UNCHANGED classify)
  /\ (name # "catalog" => UNCHANGED catalog)
  /\ (name # "schemas" => UNCHANGED schemas)
  /\ (name # "turns" => UNCHANGED turns)
  /\ (name # "handoff" => UNCHANGED handoff)
  /\ (name # "recall" => UNCHANGED recall)
  /\ (name # "gate" => UNCHANGED gate)
  /\ (name # "merge" => UNCHANGED merge)
  /\ (name # "identity" => UNCHANGED identity)
  /\ (name # "memory" => UNCHANGED memory)

\* ----------------------------------------------------------------- agents
\* The four agent objects of AgentCoordinator.INTENT_TO_AGENT.
Agents == {"SearchAgent", "CartAgent", "OrderAgent", "CommunicationAgent"}

\* INTENT_TO_AGENT: the class-level table, keyed by intent tag.
INTENT_TO_AGENT ==
  [t \in {"search", "cart", "order", "communication"} |->
     CASE t = "search" -> "SearchAgent"
       [] t = "cart" -> "CartAgent"
       [] t = "order" -> "OrderAgent"
       [] OTHER -> "CommunicationAgent"]

\* map_intent_to_agent without the fallback of dict.get: a lookup that
\* answers None for a tag the table does not hold.
map_intent_to_agent_nofallback(intent) ==
  LET tag == IF intent \in {"greeting", "unclear"} THEN "communication" ELSE intent
  IN IF tag \in DOMAIN INTENT_TO_AGENT THEN INTENT_TO_AGENT[tag] ELSE PyNone

\* map_intent_to_agent: greeting/unclear are rewritten to communication, then
\* dict.get with the Communication agent as default.
map_intent_to_agent(intent) ==
  LET tag == IF intent \in {"greeting", "unclear"} THEN "communication" ELSE intent
  IN IF tag \in DOMAIN INTENT_TO_AGENT
       THEN INTENT_TO_AGENT[tag]
       ELSE INTENT_TO_AGENT["communication"]

\* ------------------------------------------------------------------ plans
\* A step of a plan: {"action": ..., "parameters": {...}}; has_message says
\* whether parameters holds the key "message".
StepAsk == [action |-> "communication", has_message |-> TRUE, message |-> "How can I help?"]
StepBare == [action |-> "communication", has_message |-> FALSE, message |-> PyNone]
StepEmpty == [action |-> "communication", has_message |-> TRUE, message |-> ""]

\* A plan as json.loads returns it in create_plan_with_tools: the keys "steps"
\* and "response_text" may each be absent.
Plan(hs, st, ht, tx) ==
  [has_steps |-> hs, steps |-> st, has_response_text |-> ht, response_text |-> tx]
NoPlan == Plan(FALSE, << >>, FALSE, PyNone)

\* Plans the completion may return to an agent of the per-intent loop.
LoopPlans ==
  { Plan(TRUE, << >>, FALSE, PyNone),
    Plan(TRUE, <<StepAsk>>, FALSE, PyNone),
    Plan(TRUE, <<StepBare, StepAsk>>, FALSE, PyNone) }

\* Plans the completion may return on the greeting/unclear path.
NonShoppingPlans ==
  LoopPlans \cup
  { NoPlan,
    Plan(FALSE, << >>, TRUE, "Hello! What are you looking for?"),
    Plan(TRUE, <<StepAsk>>, TRUE, "Hi there"),
    Plan(TRUE, <<StepAsk>>, TRUE, ""),
    Plan(FALSE, << >>, TRUE, PyNone),
    Plan(TRUE, <<StepEmpty>>, FALSE, PyNone) }

\* What a call returns to the router: a plan, or an exception with str(e).
Returned(plan) == [kind |-> "plan", plan |-> plan, error |-> ""]
Raised(msg) == [kind |-> "raise", plan |-> NoPlan, error |-> msg]

\* The remote completion behind create_plan_with_tools: a plan or a failure
\* (transport error, timeout).
RemoteOutcomes(plans) == {Returned(p) : p \in plans} \cup {Raised("remote completion failed")}

\* ------------------------------------------------- the agents' entry point
\* What the attribute plan_and_execute resolves to on each shipped agent:
\* SearchAgent and OrderAgent derive from BaseAgent and define none, CartAgent
\* inherits PlanningAgent's, which raises NotImplementedError, and
\* CommunicationAgent defines its own (seed, customerMessage, header_info).
EntryPoint(agent) ==
  CASE agent = "SearchAgent" -> "absent"
    [] agent = "OrderAgent" -> "absent"
    [] agent = "CartAgent" -> "abstract"
    [] OTHER -> "header_info_signature"

EntryErrors ==
  { "AttributeError: no attribute 'plan_and_execute'",
    "NotImplementedError: Subclasses must implement plan_and_execute method",
    "TypeError: unexpected keyword argument 'language_id'",
    "AttributeError: 'str' object has no attribute 'languageId'" }

\* Python truthiness of Optional[str].
Truthy(v) == v # PyNone /\ v # ""

\* CommunicationAgent.plan_and_execute called with the language id bound to
\* header_info: header_info.languageId is read when header_info is truthy.
CommunicationPlanAndExecute(third, plans) ==
  IF Truthy(third)
    THEN {Raised("AttributeError: 'str' object has no attribute 'languageId'")}
    ELSE RemoteOutcomes(plans)

\* The outcomes of <agent>.plan_and_execute as the router calls it on the
\* shipped agents; style is "keyword" (seed=, customerMessage=, language_id=)
\* or "positional" (seed, message, language id).
ShippedOutcomes(agent, style, lang, plans) ==
  CASE EntryPoint(agent) = "absent" ->
         {Raised("AttributeError: no attribute 'plan_and_execute'")}
    [] EntryPoint(agent) = "abstract" ->
         {Raised("NotImplementedError: Subclasses must implement plan_and_execute method")}
    [] OTHER ->
         IF style = "keyword"
           THEN {Raised("TypeError: unexpected keyword argument 'language_id'")}
           ELSE CommunicationPlanAndExecute(lang, plans)

\* An agent that honours the PlanningAgent contract
\* plan_and_execute(seed, customerMessage, language_id) -> plan: it plans
\* through the remote completion and returns the plan or raises.
ContractOutcomes(agent, style, lang, plans) == RemoteOutcomes(plans)

\* ----------------------------------------------------------- router inputs
\* Intent tags the classifier may produce; "checkout", "SEARCH", "Cart" and ""
\* stand for tags outside the table.
IntentTags ==
  { "search", "cart", "order", "communication", "greeting", "unclear",
    "checkout", "SEARCH", "Cart", "" }

\* Tags used inside intent sequences.
SequenceTags == {"search", "cart", "order", "checkout"}

PrimaryIntents == {"greeting", "unclear", "search"}

LanguageIds == {PyNone, "de-DE"}

\* The whole user message and its k-th fragment.
UserMessage == [kind |-> "whole", idx |-> 0]
Fragment(k) == [kind |-> "part", idx |-> k]

SeqsUpTo(S, n) == UNION {[1..k -> S] : k \in 0..n}

EmptyContext == [k \in {} |-> << >>]
NoResponse == [status |-> "none"]

\* Line 98 with the comparison off by one.
MessagePartForShort(parts, idx) ==
  IF idx + 1 < Len(parts) THEN parts[idx + 1] ELSE UserMessage

\* Line 98: the fragment at index idx when the list has one, else the message.
MessagePartFor(parts, idx) ==
  IF idx < Len(parts) THEN parts[idx + 1] ELSE UserMessage

\* Lines 114-120: the step result of a call that returned.
SuccessResult(idx, intent, part, plan) ==
  [step |-> idx + 1, intent |-> intent, message_part |-> part,
   plan |-> plan, error |-> "", status |-> "success"]

\* Lines 130-136 with str(e) left out of the step result.
ErrorResultNoMessage(idx, intent, part, err) ==
  [step |-> idx + 1, intent |-> intent, message_part |-> part,
   plan |-> NoPlan, error |-> "", status |-> "error"]

\* Lines 130-136: the step result of a call that raised.
ErrorResult(idx, intent, part, err) ==
  [step |-> idx + 1, intent |-> intent, message_part |-> part,
   plan |-> NoPlan, error |-> err, status |-> "error"]

\* Lines 125-126: a returned plan with non-empty steps is stored under
\* "step_{idx+1}_results".
ContextAfterSuccess(ctx, idx, plan) ==
  IF plan.has_steps /\ plan.steps # << >>
    THEN [k \in DOMAIN ctx \cup {idx + 1} |-> IF k = idx + 1 THEN plan.steps ELSE ctx[k]]
    ELSE ctx

\* The except branch storing an (empty) entry for the failed step.
ContextAfterErrorStores(ctx, idx) ==
  [k \in DOMAIN ctx \cup {idx + 1} |-> IF k = idx + 1 THEN << >> ELSE ctx[k]]

\* Lines 128-138: the except branch leaves the context alone.
ContextAfterError(ctx, idx) == ctx

\* The except branch ending the loop (break) instead of continuing.
IndexAfterErrorBreak(idx, n) == n

\* The except branch trying the failed step again.
IndexAfterErrorRetry(idx, n) == idx

\* Line 138: the loop goes on with the next index after a failed step.
IndexAfterError(idx, n) == idx + 1

\* The outcomes the call of the agent can have, by what the table holds.
PlanAndExecute(agent, style, lang, plans) ==
  IF binding = "shipped"
    THEN ShippedOutcomes(agent, style, lang, plans)
    ELSE ContractOutcomes(agent, style, lang, plans)

\* A call whose argument self.header_info.languageId cannot be read.
HeaderMissing == Raised("AttributeError: no attribute 'header_info'")

\* The call expression of lines 107-111: the attribute lookup comes first, the
\* arguments (header_info.languageId) second, the call last.
CallOutcomes(agent, style, plans) ==
  IF binding = "shipped" /\ EntryPoint(agent) = "absent"
    THEN ShippedOutcomes(agent, style, languageId, plans)
  ELSE IF ~header_set
    THEN {HeaderMissing}
  ELSE PlanAndExecute(agent, style, languageId, plans)

RouterInit ==
  /\ binding \in {"shipped", "contract"}
  /\ header_set \in BOOLEAN
  /\ languageId \in LanguageIds
  /\ (~header_set => languageId = PyNone)
  /\ primary_intent \in PrimaryIntents
  /\ intent_sequence \in SeqsUpTo(SequenceTags, MaxIntents)
  /\ \E m \in 0..MaxIntents : message_parts = [k \in 1..m |-> Fragment(k)]
  /\ pc = "start"
  /\ i = 0
  /\ sequence_results = << >>
  /\ context_data = EmptyContext
  /\ calls = << >>
  /\ outcomes = << >>
  /\ inflight = 0
  /\ response = NoResponse

\* ---------------------------------------------------------- router actions
\* Line 51: primary_intent in ["greeting", "unclear"].
IsNonShopping(intent) == intent \in {"greeting", "unclear"}

\* Lines 73-78: the user-facing message of the non-shopping response.
NonShoppingMessage(plan) ==
  IF plan.has_response_text THEN plan.response_text
  ELSE IF plan.has_steps /\ plan.steps # << >>
    THEN IF plan.steps[1].has_message
           THEN plan.steps[1].message
           ELSE "I can only help with shopping-related requests."
  ELSE "I can only help with shopping-related requests."

\* Lines 80-87.
NonShoppingResponse(plan) ==
  [message |-> NonShoppingMessage(plan), plan |-> plan,
   status |-> "non_shopping_request", agent |-> "communication",
   is_shopping_related |-> FALSE]

\* Lines 140-146.
SequenceResponse(results, intents) ==
  [status |-> "multi_intent_complete", sequence_results |-> results,
   is_shopping_related |-> TRUE, total_steps |-> Len(intents)]

\* Lines 60-68: the synthetic seed of the greeting/unclear path.
NonShoppingSeed ==
  [intent_type |-> primary_intent,
   is_greeting |-> (primary_intent = "greeting"),
   is_unclear |-> (primary_intent = "unclear")]

\* process_chat_request lines 51-52 and handle_non_shopping_intent lines 60-71:
\* the Communication agent is looked up and its call is started.
HandleNonShoppingCall ==
  /\ UNCHANGED << searchVars, mapVars, auxVars >>
  /\ pc = "start"
  /\ IsNonShopping(primary_intent)
  /\ pc' = "calling_non_shopping"
  /\ calls' = Append(calls,
       [path |-> "non_shopping", idx |-> 0, intent |-> "communication",
        agent |-> map_intent_to_agent("communication"),
        seed |-> NonShoppingSeed, message |-> UserMessage])
  /\ inflight' = inflight + 1
  /\ UNCHANGED << binding, header_set, languageId, primary_intent,
                  intent_sequence, message_parts, i, sequence_results,
                  context_data, outcomes, response >>

\* handle_non_shopping_intent lines 71-87: the call returns a plan and the
\* response is built, or it raises and the exception leaves the router.
HandleNonShoppingComplete ==
  /\ UNCHANGED << searchVars, mapVars, auxVars >>
  /\ pc = "calling_non_shopping"
  /\ \E o \in CallOutcomes(calls[Len(calls)].agent, "positional", NonShoppingPlans) :
       IF o.kind = "plan"
         THEN /\ response' = NonShoppingResponse(o.plan)
              /\ pc' = "done"
         ELSE /\ response' = [status |-> "raised", error |-> o.error]
              /\ pc' = "raised"
  /\ inflight' = inflight - 1
  /\ UNCHANGED << binding, header_set, languageId, primary_intent,
                  intent_sequence, message_parts, i, sequence_results,
                  context_data, calls, outcomes >>

\* process_chat_request line 54 and process_intent_sequences lines 91-94.
EnterSequence ==
  /\ UNCHANGED << searchVars, mapVars, auxVars >>
  /\ pc = "start"
  /\ ~IsNonShopping(primary_intent)
  /\ pc' = "loop"
  /\ i' = 0
  /\ sequence_results' = << >>
  /\ context_data' = EmptyContext
  /\ UNCHANGED << binding, header_set, languageId, primary_intent,
                  intent_sequence, message_parts, calls, outcomes, inflight,
                  response >>

\* Lines 96-111: the next intent's fragment and agent are chosen and the call
\* of plan_and_execute(seed=context_data, ...) is started.
SequenceCall ==
  /\ UNCHANGED << searchVars, mapVars, auxVars >>
  /\ pc = "loop"
  /\ i < Len(intent_sequence)
  /\ pc' = "calling"
  /\ calls' = Append(calls,
       [path |-> "sequence", idx |-> i, intent |-> intent_sequence[i + 1],
        agent |-> map_intent_to_agent(intent_sequence[i + 1]),
        seed |-> context_data,
        message |-> MessagePartFor(message_parts, i)])
  /\ inflight' = inflight + 1
  /\ UNCHANGED << binding, header_set, languageId, primary_intent,
                  intent_sequence, message_parts, i, sequence_results,
                  context_data, outcomes, response >>

\* Lines 106-138: the call returns (step result "success", context updated)
\* or raises (step result "error"); the loop continues either way.
SequenceComplete ==
  /\ UNCHANGED << searchVars, mapVars, auxVars >>
  /\ pc = "calling"
  /\ LET c == calls[Len(calls)]
     IN \E o \in CallOutcomes(c.agent, "keyword", LoopPlans) :
          /\ outcomes' = Append(outcomes, o)
          /\ IF o.kind = "plan"
               THEN /\ sequence_results' =
                         Append(sequence_results, SuccessResult(i, c.intent, c.message, o.plan))
                    /\ context_data' = ContextAfterSuccess(context_data, i, o.plan)
                    /\ i' = i + 1
               ELSE /\ sequence_results' =
                         Append(sequence_results, ErrorResult(i, c.intent, c.message, o.error))
                    /\ context_data' = ContextAfterError(context_data, i)
                    /\ i' = IndexAfterError(i, Len(intent_sequence))
  /\ pc' = "loop"
  /\ inflight' = inflight - 1
  /\ UNCHANGED << binding, header_set, languageId, primary_intent,
                  intent_sequence, message_parts, calls, response >>

\* Lines 140-146: the loop is over and the aggregate is returned.
SequenceReturn ==
  /\ UNCHANGED << searchVars, mapVars, auxVars >>
  /\ pc = "loop"
  /\ i >= Len(intent_sequence)
  /\ response' = SequenceResponse(sequence_results, intent_sequence)
  /\ pc' = "done"
  /\ UNCHANGED << binding, header_set, languageId, primary_intent,
                  intent_sequence, message_parts, i, sequence_results,
                  context_data, calls, outcomes, inflight >>

RouterNext ==
  \/ HandleNonShoppingCall
  \/ HandleNonShoppingComplete
  \/ EnterSequence
  \/ SequenceCall
  \/ SequenceComplete
  \/ SequenceReturn

\* ================================================================ SearchAgent
\* ------------------------------------------------------------------ bounds
\* Most fields the extracted payload holds.
MaxPayloadFields == 2

\* ------------------------------------------------------------ Python values
EmptyList == "<[]>"
OptionList == "<['red']>"
IntTwo == "<int 2>"
IntNumber == "<int 100>"

\* The eight actions of SearchIntentExtraction.action (lines 110-119).
SearchActions ==
  { "search_product_by_productNumber", "search_products_by_description",
    "list_products", "product_listing_by_category", "search_suggest",
    "get_product", "product_cross_selling", "find_variant" }

\* The SearchPayload fields the gate and the executor read.
PayloadFields == {"productNumber", "search", "category_id", "productId", "options", "quantity"}
ExtractedFields == PayloadFields \ {"quantity"}

\* The values the completion may give a payload field; model_dump(exclude_none)
\* drops a None, so PyNone stands for an absent key.
FieldValues(f) == IF f = "options" THEN {EmptyList, OptionList} ELSE {"", "v"}

EmptyPayload == [f \in PayloadFields |-> PyNone]

Payloads ==
  { p \in [PayloadFields -> {PyNone, "", "v", EmptyList, OptionList}] :
      /\ p["quantity"] = PyNone
      /\ \A f \in ExtractedFields : p[f] = PyNone \/ p[f] \in FieldValues(f)
      /\ Cardinality({f \in ExtractedFields : p[f] # PyNone}) <= MaxPayloadFields }

\* The "required" lists an action's schema entry may hold, in schema order.
RequiredLists ==
  { << >>, <<"productNumber">>, <<"search">>, <<"category_id">>, <<"productId">>,
    <<"productId", "options">>, <<"quantity", "search">> }

\* get_action_schema(action): the catalog entry of the action, or None.
NoSchema == [known |-> FALSE, required |-> << >>]
Schemas == {NoSchema} \cup {[known |-> TRUE, required |-> r] : r \in RequiredLists}

\* get_action_schema answers None for an unknown action; line 339 reads the
\* required list of a known one.
RequiredFieldsOf(schema) == IF ~schema.known THEN << >> ELSE schema.required

\* Line 343 as a truthiness test: 0 and False count as missing too.
IsMissingValueFalsy(value) == value \in {PyNone, "", EmptyList, "<int 0>", "<False>"}

\* Line 343: value in (None, "", []).
IsMissingValue(value) == value \in {PyNone, "", EmptyList}

\* _missing_required_fields, lines 337-345: the required fields, in schema
\* order, whose payload value is None, "" or [].
RECURSIVE MissingOf(_, _)
MissingOf(required, payload) ==
  IF required = << >> THEN << >>
  ELSE LET rest == MissingOf(Tail(required), payload)
       IN IF IsMissingValue(payload[Head(required)])
            THEN <<Head(required)>> \o rest
            ELSE rest

\* The loop of lines 341-344 stopping after the first required field.
missing_required_fields_first_only(schema, payload) ==
  IF RequiredFieldsOf(schema) = << >> THEN << >>
  ELSE MissingOf(<<Head(RequiredFieldsOf(schema))>>, payload)

missing_required_fields(schema, payload) == MissingOf(RequiredFieldsOf(schema), payload)

\* dict.setdefault on a dict that holds no None values.
SetDefault(payload, key, value) ==
  IF payload[key] = PyNone THEN [payload EXCEPT ![key] = value] ELSE payload

\* SearchPayload(**data) at the end of _dict_to_payload (line 321): the str
\* field productNumber rejects an int.
PayloadValidates(payload) == payload["productNumber"] # IntNumber

\* The classifier hints handed to plan_search (parsed_intents): each names a
\* function and IntentParameters(search: str, productNumber: int).
NoHints == << >>
Hints ==
  { NoHints,
    <<[function |-> "search_products_by_description", search |-> "hinted", productNumber |-> PyNone]>>,
    <<[function |-> "search_product_by_productNumber", search |-> PyNone, productNumber |-> IntNumber]>> }

\* The first hint whose function is the action, or 0 (line 224, break at 236).
RECURSIVE FirstHintFrom(_, _, _)
FirstHintFrom(hints, action, k) ==
  IF k > Len(hints) THEN 0
  ELSE IF hints[k].function = action THEN k
  ELSE FirstHintFrom(hints, action, k + 1)

\* _merge_with_intent_hints, lines 215-237, on the payload dict: the matching
\* hint's non-None parameters are set where the payload has none.
merge_with_intent_hints(payload, action, hints) ==
  LET k == FirstHintFrom(hints, action, 1)
  IN IF k = 0 THEN payload
     ELSE LET h == hints[k]
              p1 == IF h.search # PyNone THEN SetDefault(payload, "search", h.search) ELSE payload
          IN IF h.productNumber # PyNone
               THEN SetDefault(p1, "productNumber", h.productNumber)
               ELSE p1

\* Lines 232-233: the description taken from the matching hint.
DescriptionAfterHints(description, action, hints) ==
  LET k == FirstHintFrom(hints, action, 1)
  IN IF k # 0 /\ ~Truthy(description) /\ hints[k].search # PyNone
       THEN hints[k].search
       ELSE description

\* _normalize_payload, lines 323-335.
normalize_payload(payload, action, productNumber, description, quantity) ==
  LET p1 == IF action = "search_product_by_productNumber" /\ Truthy(productNumber)
              THEN SetDefault(payload, "productNumber", productNumber) ELSE payload
      p2 == IF action = "search_products_by_description" /\ Truthy(description)
              THEN SetDefault(p1, "search", description) ELSE p1
  IN IF quantity # PyNone THEN SetDefault(p2, "quantity", quantity) ELSE p2

\* ------------------------------------------------- the communication plan
\* What plan_communication may hand back (json.loads of the completion):
\* shape says how far the path plan["steps"][0]["parameters"] exists; message
\* and missing are the parameters' entries (PyNone: absent or null;
\* missing_is_list FALSE: absent or not a list).
CommReply(shape, message, is_list, missing) ==
  [shape |-> shape, message |-> message, missing_is_list |-> is_list, missing |-> missing]

CommShapesWithoutParameters ==
  { "not_dict", "no_steps", "steps_not_list", "empty_steps", "no_parameters",
    "parameters_not_dict" }

CommReplies ==
  {CommReply(sh, PyNone, FALSE, << >>) : sh \in CommShapesWithoutParameters \cup {"step_not_dict"}}
  \cup {CommReply("parameters", m, FALSE, << >>) : m \in {PyNone, "", "Which size do you need?", IntTwo}}
  \cup {CommReply("parameters", m, TRUE, <<"size">>) : m \in {PyNone, "", "Which size do you need?"}}
  \cup {CommReply("parameters", "Which size do you need?", TRUE, << >>)}

FallbackQuestion == "Could you provide the missing information?"

\* Lines 366-372: the message read from the first step's parameters, "" when
\* the path does not exist.
ExtractedMessage(reply) ==
  IF reply.shape = "parameters" /\ reply.message # PyNone THEN reply.message ELSE ""

\* Line 379 without the fallback.
PlanMessageNoFallback(reply) == ExtractedMessage(reply)

\* Line 379: message or "Could you provide the missing information?".
PlanMessage(reply) ==
  IF ExtractedMessage(reply) = "" THEN FallbackQuestion ELSE ExtractedMessage(reply)

\* Lines 374-376 without the emptiness test: any list the model reports
\* replaces the agent's.
PlanMissingAnyList(reply, missing) ==
  IF reply.shape = "parameters" /\ reply.missing_is_list
    THEN reply.missing
    ELSE missing

\* Lines 374-376: the model's list replaces the agent's when it is a
\* non-empty list.
PlanMissing(reply, missing) ==
  IF reply.shape = "parameters" /\ reply.missing_is_list /\ reply.missing # << >>
    THEN reply.missing
    ELSE missing

\* Line 370 raises on a first step that is no dict; CommunicationPlan(message:
\* str) rejects a message that is no string (line 378).
AskRaises(reply) ==
  \/ reply.shape = "step_not_dict"
  \/ (reply.shape = "parameters" /\ reply.message = IntTwo)

NoCommunication == [message |-> PyNone, missing |-> << >>, raw |-> PyNone]

\* Lines 378-383.
CommunicationPlan(reply, missing) ==
  [message |-> PlanMessage(reply), missing |-> PlanMissing(reply, missing),
   raw |-> IF reply.shape = "not_dict" THEN "{}" ELSE reply.shape]

\* ------------------------------------------------ the storefront executor
NoShopwareResponse == [kind |-> "none", value |-> PyNone]
ErrorResponse(msg) == [kind |-> "error", value |-> msg]
DataResponse(data) == [kind |-> "data", value |-> data]

\* The payload checks of _execute_shopware_action before the client is called
\* (lines 411, 425, 444, 455, 468): the ValueError message, or PyNone.
ExecutorValueError(action, payload) ==
  CASE action = "search_product_by_productNumber" /\ ~Truthy(payload["productNumber"]) ->
         "productNumber is required for search_product_by_productNumber"
    [] action = "product_listing_by_category" /\ ~Truthy(payload["category_id"]) ->
         "category_id is required for product_listing_by_category"
    [] action = "get_product" /\ ~Truthy(payload["productId"]) ->
         "productId is required for get_product"
    [] action = "product_cross_selling" /\ ~Truthy(payload["productId"]) ->
         "productId is required for product_cross_selling"
    [] action = "find_variant"
         /\ (~Truthy(payload["productId"]) \/ payload["options"] \in {PyNone, EmptyList}) ->
         "productId and options are required for find_variant"
    [] OTHER -> PyNone

ClientReturned(data) == [kind |-> "data", value |-> data]
ClientRaised(msg) == [kind |-> "raise", value |-> msg]

\* What the ProductClient method behind each action does (shopware_product_
\* client.py): only get_product_by_productNumber reaches the HTTP call, whose
\* JSON body is a dict, null or something else, or which fails; the other
\* methods read self._log or self._headers, which no class defines, and
\* search_suggest and product_cross_selling are no methods of the client.
ClientOutcomes(action) ==
  CASE action = "search_product_by_productNumber" ->
         { ClientRaised("httpx transport failure or timeout"),
           ClientRaised("HTTPStatusError"),
           ClientReturned("dict"), ClientReturned("null"), ClientReturned("list") }
    [] action = "search_products_by_description" ->
         { ClientRaised("AttributeError: 'ProductClient' object has no attribute '_log'") }
    [] action \in {"search_suggest", "product_cross_selling"} ->
         { ClientRaised("AttributeError: 'ProductClient' object has no such method") }
    [] OTHER ->
         { ClientRaised("AttributeError: 'ProductClient' object has no attribute '_headers'") }

\* Lines 416-420 and the returns of the other branches: null becomes None, a
\* dict is returned as it is, anything else is wrapped as {"product": res}.
ExecutorReturn(action, data) ==
  IF action = "search_product_by_productNumber"
    THEN CASE data = "null" -> NoShopwareResponse
           [] data = "dict" -> DataResponse("dict")
           [] OTHER -> DataResponse("{product: " \o data \o "}")
    ELSE DataResponse(data)

\* An exception of the try block that leaves _execute_shopware_action.
PropagateExecutorException(msg) ==
  [pc |-> "raised", shopware_response |-> NoShopwareResponse]

\* Lines 482-484: except Exception -> {"error": str(exc)}.
AbsorbExecutorException(msg) ==
  [pc |-> "returned", shopware_response |-> ErrorResponse(msg)]

\* ----------------------------------------------------- plan_search inputs
NoException == [origin |-> "none", error |-> ""]
NoReply == CommReply("none", PyNone, FALSE, << >>)

\* The top-level productNumber, description and quantity of an extraction.
TopLevels ==
  [productNumber : {PyNone, "SW100"}, description : {PyNone, "red shoes"},
   quantity : {PyNone, IntTwo}]

SearchInit ==
  /\ s_pc = "start"
  /\ s_header \in {PyNone, "header"}
  /\ s_schema \in Schemas
  /\ s_hints \in Hints
  /\ s_action = PyNone
  /\ s_payload = EmptyPayload
  /\ s_missing = << >>
  /\ s_comm_calls = << >>
  /\ s_executor_calls = << >>
  /\ s_client_calls = << >>
  /\ s_exception = NoException
  /\ s_reply = NoReply
  /\ s_communication = NoCommunication
  /\ s_shopware = NoShopwareResponse

\* Lines 164-188: the completion is parsed into an extraction, the hints are
\* merged and the payload is normalized; a missing parse, a failed completion
\* or a payload SearchPayload rejects raises.
SearchExtract ==
  /\ UNCHANGED << routerVars, mapVars, auxVars >>
  /\ s_pc = "start"
  /\ \/ \E a \in SearchActions, p \in Payloads, t \in TopLevels :
          LET merged == merge_with_intent_hints(p, a, s_hints)
              descr == DescriptionAfterHints(t.description, a, s_hints)
              normal == normalize_payload(merged, a, t.productNumber, descr, t.quantity)
          IN IF PayloadValidates(merged) /\ PayloadValidates(normal)
               THEN /\ s_action' = a
                    /\ s_payload' = normal
                    /\ s_pc' = "normalized"
                    /\ UNCHANGED s_exception
               ELSE /\ s_exception' = [origin |-> "validation", error |-> "ValidationError"]
                    /\ s_pc' = "raised"
                    /\ UNCHANGED << s_action, s_payload >>
     \/ /\ \E e \in {"Failed to parse search product response: parsed value is None",
                     "remote completion failed"} :
             s_exception' = [origin |-> "completion", error |-> e]
        /\ s_pc' = "raised"
        /\ UNCHANGED << s_action, s_payload >>
  /\ UNCHANGED << s_header, s_schema, s_hints, s_missing, s_comm_calls,
                  s_executor_calls, s_client_calls, s_reply, s_communication,
                  s_shopware >>

\* Lines 193-211: the missing list is computed; when it is non-empty
\* _ask_for_missing_params starts the plan_communication call, otherwise
\* _execute_shopware_action is entered.
SearchGate ==
  /\ UNCHANGED << routerVars, mapVars, auxVars >>
  /\ s_pc = "normalized"
  /\ LET missing == missing_required_fields(s_schema, s_payload)
     IN /\ s_missing' = missing
        /\ IF missing # << >>
             THEN /\ s_comm_calls' = Append(s_comm_calls,
                       [missing |-> missing, action |-> s_action, knownPayload |-> s_payload])
                  /\ s_pc' = "asking"
                  /\ UNCHANGED s_executor_calls
             ELSE /\ s_executor_calls' = Append(s_executor_calls,
                       [action |-> s_action, payload |-> s_payload, header_info |-> s_header])
                  /\ s_pc' = "executing"
                  /\ UNCHANGED s_comm_calls
  /\ UNCHANGED << s_header, s_schema, s_hints, s_action, s_payload,
                  s_client_calls, s_exception, s_reply, s_communication,
                  s_shopware >>

\* _ask_for_missing_params, lines 361-383: the plan comes back and the
\* CommunicationPlan is built, or the call (or a malformed plan) raises.
AskComplete ==
  /\ UNCHANGED << routerVars, mapVars, auxVars >>
  /\ s_pc = "asking"
  /\ \/ \E reply \in CommReplies :
          /\ s_reply' = reply
          /\ IF AskRaises(reply)
               THEN /\ s_exception' = [origin |-> "communication", error |-> "malformed plan"]
                    /\ s_pc' = "raised"
                    /\ UNCHANGED s_communication
               ELSE /\ s_communication' = CommunicationPlan(reply, s_missing)
                    /\ s_pc' = "returned"
                    /\ UNCHANGED s_exception
     \/ /\ s_exception' = [origin |-> "communication", error |-> "remote completion failed"]
        /\ s_pc' = "raised"
        /\ UNCHANGED << s_reply, s_communication >>
  /\ UNCHANGED << s_header, s_schema, s_hints, s_action, s_payload, s_missing,
                  s_comm_calls, s_executor_calls, s_client_calls, s_shopware >>

\* _execute_shopware_action, lines 393-478, up to the client call: without a
\* header the call is skipped and None returned; a payload check that fails
\* raises ValueError inside the try block; otherwise the client call starts.
ExecuteEnter ==
  /\ UNCHANGED << routerVars, mapVars, auxVars >>
  /\ s_pc = "executing"
  /\ IF s_header = PyNone
       THEN /\ s_shopware' = NoShopwareResponse
            /\ s_pc' = "returned"
            /\ UNCHANGED << s_client_calls, s_exception >>
     ELSE IF ExecutorValueError(s_action, s_payload) # PyNone
       THEN LET msg == ExecutorValueError(s_action, s_payload)
            IN /\ s_exception' = [origin |-> "executor", error |-> msg]
               /\ s_shopware' = AbsorbExecutorException(msg).shopware_response
               /\ s_pc' = AbsorbExecutorException(msg).pc
               /\ UNCHANGED s_client_calls
     ELSE /\ s_client_calls' = Append(s_client_calls, s_action)
          /\ s_pc' = "client_call"
          /\ UNCHANGED << s_shopware, s_exception >>
  /\ UNCHANGED << s_header, s_schema, s_hints, s_action, s_payload, s_missing,
                  s_comm_calls, s_executor_calls, s_reply, s_communication >>

\* Lines 402-484: the client call returns its result, or raises and the
\* except branch turns the exception into {"error": str(exc)}.
ClientComplete ==
  /\ UNCHANGED << routerVars, mapVars, auxVars >>
  /\ s_pc = "client_call"
  /\ \E o \in ClientOutcomes(s_action) :
       IF o.kind = "raise"
         THEN /\ s_exception' = [origin |-> "executor", error |-> o.value]
              /\ s_shopware' = AbsorbExecutorException(o.value).shopware_response
              /\ s_pc' = AbsorbExecutorException(o.value).pc
         ELSE /\ s_shopware' = ExecutorReturn(s_action, o.value)
              /\ s_pc' = "returned"
              /\ UNCHANGED s_exception
  /\ UNCHANGED << s_header, s_schema, s_hints, s_action, s_payload, s_missing,
                  s_comm_calls, s_executor_calls, s_client_calls, s_reply,
                  s_communication >>

SearchNext ==
  \/ SearchExtract
  \/ SearchGate
  \/ AskComplete
  \/ ExecuteEnter
  \/ ClientComplete

\* ------------------------------------------------ map_intent_to_agent alone
\* Most lookups of one run.
MaxLookups == 2


MapInit == lookups = << >>

\* One call of map_intent_to_agent with any tag.
MapIntent ==
  /\ UNCHANGED << routerVars, searchVars, auxVars >>
  /\ Len(lookups) < MaxLookups
  /\ \E t \in IntentTags :
       lookups' = Append(lookups, [intent |-> t, agent |-> map_intent_to_agent(t)])

MapNext == MapIntent

\* ------------------------------- _dict_to_payload and _payload_to_dict
\* A Python dict is a function on its keys; a key that may be absent has a
\* flag next to its value. Lists are sequences.

\* Most entries of a filter list.
MaxFilters == 1

IncludeAliases == {"product", "media"}
FieldLists == {<< >>, <<"id">>}
AssociationNames == {"manufacturer"}
ParameterKeys == {"gte"}
ParameterValues == {PyNone, "10"}

MapsOver(keys, values) == UNION {[K -> values] : K \in SUBSET keys}

\* The settings dict of one association: "includes" and "limit" are optional.
AssociationSetting(hasIncludes, includes, limit) ==
  [has_includes |-> hasIncludes, includes |-> includes, limit |-> limit]

AssociationSettings ==
  {AssociationSetting(FALSE, << >>, l) : l \in {PyNone, IntTwo}}
  \cup {AssociationSetting(TRUE, f, l) : f \in FieldLists, l \in {PyNone, IntTwo}}

\* One filter dict in flat form: "parameters" is optional and a dict.
FlatFilter(hasParameters, parameters) ==
  [type |-> "range", has_parameters |-> hasParameters, parameters |-> parameters]

FlatFilters ==
  {FlatFilter(FALSE, [k \in {} |-> PyNone])}
  \cup {FlatFilter(TRUE, m) : m \in MapsOver(ParameterKeys, ParameterValues)}

\* A top-level key holding a dict or a list: absent, a dict ("map") or a list.
Absent == [shape |-> "absent", map |-> << >>, list |-> << >>]
AsMap(m) == [shape |-> "map", map |-> m, list |-> << >>]
AsList(l) == [shape |-> "list", map |-> << >>, list |-> l]

\* The flat payloads x of the conversions.
FlatPayloads ==
  [search : {PyNone, "red shoes"},
   includes : {Absent} \cup {AsMap(m) : m \in MapsOver(IncludeAliases, FieldLists)},
   associations : {Absent} \cup {AsMap(m) : m \in MapsOver(AssociationNames, AssociationSettings)},
   filter : {Absent} \cup {AsList(l) : l \in SeqsUpTo(FlatFilters, MaxFilters)}]

\* dict.items(): the entries of a dict as a list.
RECURSIVE ItemsOf(_, _)
ItemsOf(m, keys) ==
  IF keys = {} THEN << >>
  ELSE LET k == CHOOSE k \in keys : TRUE
       IN <<[key |-> k, value |-> m[k]]>> \o ItemsOf(m, keys \ {k})

\* A dict comprehension over a list of entries: a later entry wins.
DictOf(items) ==
  [k \in {items[j].key : j \in DOMAIN items} |->
     items[CHOOSE j \in DOMAIN items :
             /\ items[j].key = k
             /\ \A h \in DOMAIN items : items[h].key = k => h <= j].value]

\* Python truthiness of a dict or list held under a top-level key.
TruthyCollection(c) ==
  \/ (c.shape = "map" /\ DOMAIN c.map # {})
  \/ (c.shape = "list" /\ c.list # << >>)

\* The typed payload: None (shape "absent") or a list of model objects.
NoTyped == [search |-> PyNone, includes |-> Absent, associations |-> Absent, filter |-> Absent]

\* _dict_to_payload lines 282-284: a non-empty includes dict becomes a list of
\* {"alias", "fields"}.
IncludesToList(c) ==
  IF TruthyCollection(c) /\ c.shape = "map"
    THEN LET it == ItemsOf(c.map, DOMAIN c.map)
         IN AsList([j \in DOMAIN it |-> [alias |-> it[j].key, fields |-> it[j].value]])
    ELSE c


\* _dict_to_payload lines 291-295: value.get("includes", []) is stored under
\* "includes" whether the key was given or not; limit only when not None.
AssociationEntry(name, setting) ==
  [name |-> name, has_includes |-> TRUE,
   includes |-> IF setting.has_includes THEN setting.includes ELSE << >>,
   limit |-> setting.limit]

\* _dict_to_payload lines 286-296.
AssociationsToList(c) ==
  IF TruthyCollection(c)
    THEN IF c.shape = "map"
           THEN LET it == ItemsOf(c.map, DOMAIN c.map)
                IN AsList([j \in DOMAIN it |-> AssociationEntry(it[j].key, it[j].value)])
           ELSE AsList(<< >>)
    ELSE c

\* _convert_filters_back, lines 298-308: a parameters dict becomes a list of
\* {"key", "value"}.
ConvertFilterBack(f) ==
  [type |-> f.type, has_parameters |-> f.has_parameters,
   parameters |-> IF f.has_parameters
                    THEN ItemsOf(f.parameters, DOMAIN f.parameters)
                    ELSE << >>]

\* _dict_to_payload lines 310-311.
FiltersToTyped(c) ==
  IF TruthyCollection(c) /\ c.shape = "list"
    THEN AsList([j \in DOMAIN c.list |-> ConvertFilterBack(c.list[j])])
    ELSE c

\* SearchPayload(**data), line 321: includes, associations and filter are
\* List[...] | None, and a dict is no list.
SearchPayloadValidates(data) ==
  /\ data.includes.shape # "map"
  /\ data.associations.shape # "map"
  /\ data.filter.shape # "map"

\* _dict_to_payload, lines 279-321: the data handed to SearchPayload.
dict_to_payload(x) ==
  [search |-> x.search,
   includes |-> IncludesToList(x.includes),
   associations |-> AssociationsToList(x.associations),
   filter |-> FiltersToTyped(x.filter)]

\* model_dump(exclude_none=True) of a FilterParameter and lines 248-250: the
\* dict built as {param["key"]: param.get("value")}.
ConvertFilter(f) ==
  [type |-> f.type, has_parameters |-> f.has_parameters,
   parameters |-> IF f.has_parameters THEN DictOf(f.parameters) ELSE [k \in {} |-> PyNone]]

\* _payload_to_dict lines 254-255.
IncludesToMap(c) ==
  IF TruthyCollection(c)
    THEN AsMap(DictOf([j \in DOMAIN c.list |->
                         [key |-> c.list[j].alias, value |-> c.list[j].fields]]))
    ELSE c

\* _payload_to_dict lines 257-264: every association gets "includes", and
\* "limit" when it is not None.
AssociationsToMap(c) ==
  IF TruthyCollection(c)
    THEN AsMap(DictOf([j \in DOMAIN c.list |->
                         [key |-> c.list[j].name,
                          value |-> AssociationSetting(TRUE,
                                      IF c.list[j].has_includes THEN c.list[j].includes ELSE << >>,
                                      c.list[j].limit)]]))
    ELSE c

\* _payload_to_dict lines 266-267.
FiltersToFlat(c) ==
  IF TruthyCollection(c)
    THEN AsList([j \in DOMAIN c.list |-> ConvertFilter(c.list[j])])
    ELSE c

\* _payload_to_dict, lines 239-277.
payload_to_dict(payload) ==
  [search |-> payload.search,
   includes |-> IncludesToMap(payload.includes),
   associations |-> AssociationsToMap(payload.associations),
   filter |-> FiltersToFlat(payload.filter)]

ConvIdle == [pc |-> "idle", x |-> NoTyped, typed |-> NoTyped, out |-> NoTyped]

ConvInit == \E x \in FlatPayloads : conv = [pc |-> "start", x |-> x, typed |-> NoTyped, out |-> NoTyped]

\* _dict_to_payload(x): the SearchPayload, or pydantic's ValidationError.
ConvToPayload ==
  /\ UNCHANGED << routerVars, searchVars, mapVars >>
  /\ AuxUnchangedExcept("conv")
  /\ conv.pc = "start"
  /\ IF SearchPayloadValidates(dict_to_payload(conv.x))
       THEN conv' = [conv EXCEPT !.pc = "typed", !.typed = dict_to_payload(conv.x)]
       ELSE conv' = [conv EXCEPT !.pc = "raised"]

\* _payload_to_dict of the SearchPayload.
ConvToDict ==
  /\ UNCHANGED << routerVars, searchVars, mapVars >>
  /\ AuxUnchangedExcept("conv")
  /\ conv.pc = "typed"
  /\ conv' = [conv EXCEPT !.pc = "done", !.out = payload_to_dict(conv.typed)]

ConvNext ==
  \/ ConvToPayload
  \/ ConvToDict

\* --------------------------------- ChatRequest.validate_customer_message
\* A message is known by its lengths: leading whitespace, the stripped text,
\* trailing whitespace, and whether the stripped text holds a letter.

\* Most whitespace characters before or after the text.
MaxPad == 1

\* Line 111: max_length = 2000.
max_length == 2000

\* Line 116: only-special-character messages longer than 50 are turned down.
special_only_length == 50

StrippedLengths == {0, 1, 50, 51, 1999, 2000, 2001}

Message(kind, lead, core, trail, letters) ==
  [kind |-> kind, lead |-> lead, core |-> core, trail |-> trail, letters |-> letters]

\* The customerMessage values of a request body: strings and one non-string.
InboundMessages ==
  {m \in {Message("str", l, c, t, b) :
            l \in 0..MaxPad, c \in StrippedLengths, t \in 0..MaxPad, b \in BOOLEAN} :
     m.letters => m.core > 0}
  \cup {Message("int", 0, 0, 0, FALSE)}

\* The value of the validated field: None or a string of some length.
NoneValue == [none |-> TRUE, len |-> 0]
StrValue(n) == [none |-> FALSE, len |-> n]

\* Lines 100-117: the first ValueError the checks raise, or PyNone.
ValidateError(m) ==
  IF m.core = 0 THEN "Customer message cannot be empty or contain only whitespace"
  ELSE IF m.core > max_length THEN "Customer message is too long"
  ELSE IF ~m.letters /\ m.core > special_only_length
    THEN "Customer message appears to contain only special characters or numbers"
  ELSE PyNone

\* validate_customer_message, lines 96-121: the stripped message, or, when a
\* check raised, the except branch logs the error and the function ends
\* without a return statement: the field's value is None.
validate_customer_message(m) ==
  IF ValidateError(m) = PyNone
    THEN [raised |-> FALSE, value |-> StrValue(m.core), logged |-> PyNone]
    ELSE [raised |-> FALSE, value |-> NoneValue, logged |-> ValidateError(m)]

InboundIdle ==
  [pc |-> "idle", body |-> Message("str", 0, 1, 0, TRUE), value |-> NoneValue,
   logged |-> PyNone, episodes |-> << >>, classified |-> << >>]

InboundInit ==
  \E m \in InboundMessages :
    inbound = [InboundIdle EXCEPT !.pc = "start", !.body = m]

\* chat() line 222, ChatRequest(**body): a customerMessage that is no string
\* fails the field's type; otherwise the validator's return value becomes the
\* field.
ChatValidate ==
  /\ UNCHANGED << routerVars, searchVars, mapVars >>
  /\ AuxUnchangedExcept("inbound")
  /\ inbound.pc = "start"
  /\ IF inbound.body.kind # "str" \/ validate_customer_message(inbound.body).raised
       THEN inbound' = [inbound EXCEPT !.pc = "rejected",
                          !.logged = IF inbound.body.kind # "str" THEN PyNone
                                     ELSE validate_customer_message(inbound.body).logged]
       ELSE inbound' = [inbound EXCEPT !.pc = "validated",
                          !.value = validate_customer_message(inbound.body).value,
                          !.logged = validate_customer_message(inbound.body).logged]

\* chat() lines 228-235: the message is added to memory as an episode, or
\* the memory call raises.
ChatAddEpisode ==
  /\ UNCHANGED << routerVars, searchVars, mapVars >>
  /\ AuxUnchangedExcept("inbound")
  /\ inbound.pc = "validated"
  /\ \/ inbound' = [inbound EXCEPT !.pc = "ingested",
                      !.episodes = Append(inbound.episodes, inbound.value)]
     \/ inbound' = [inbound EXCEPT !.pc = "raised"]

\* chat() lines 238-239: classify_multi_intent(chat_request.customerMessage).
ChatClassify ==
  /\ UNCHANGED << routerVars, searchVars, mapVars >>
  /\ AuxUnchangedExcept("inbound")
  /\ inbound.pc = "ingested"
  /\ inbound' = [inbound EXCEPT !.pc = "classifying",
                   !.classified = Append(inbound.classified, inbound.value)]

InboundNext ==
  \/ ChatValidate
  \/ ChatAddEpisode
  \/ ChatClassify

\* ------------------------------------------ ProductClient.search_products
\* Line 128: the status that asks for a retry without the token.
precondition_failed == 412

StatusCodes == {200, 412, 500}

ContextTokens == {PyNone, "", "tok-A"}

\* Whether self._log names a logger. ShopwareBaseClient.__init__ binds
\* self.logger only; _log exists on a client only when it was bound from
\* outside the class.
LogBindings == {"unbound", "bound"}

HttpRequest(token, language, page, attempt) ==
  [path |-> "/search", token |-> token, language |-> language, p |-> page,
   attempt |-> attempt]

NoHttpError == "<no error>"

HttpIdle ==
  [pc |-> "idle", log |-> "unbound", context_token |-> PyNone, language_id |-> "",
   p |-> PyNone, requests |-> << >>, statuses |-> << >>, error |-> NoHttpError]

HttpInit ==
  \E l \in LogBindings, t \in ContextTokens, g \in {"", "de-DE"}, q \in {PyNone, IntTwo} :
    http = [HttpIdle EXCEPT !.pc = "start", !.log = l, !.context_token = t,
                            !.language_id = g, !.p = q]

\* Lines 58-123: body and headers are built, then self._log.info is called.
SearchProductsEnter ==
  /\ UNCHANGED << routerVars, searchVars, mapVars >>
  /\ AuxUnchangedExcept("http")
  /\ http.pc = "start"
  /\ IF http.log = "unbound"
       THEN http' = [http EXCEPT !.pc = "raised",
                       !.error = "AttributeError: 'ProductClient' object has no attribute '_log'"]
       ELSE http' = [http EXCEPT !.pc = "sending"]

\* Line 125: the POST to /search; the headers hold sw-context-token with
\* whatever context_token is.
SearchProductsPost ==
  /\ UNCHANGED << routerVars, searchVars, mapVars >>
  /\ AuxUnchangedExcept("http")
  /\ http.pc = "sending"
  /\ http' = [http EXCEPT !.pc = "awaiting",
                !.requests = Append(http.requests,
                   HttpRequest(http.context_token, http.language_id, http.p,
                               Len(http.requests) + 1))]

\* Lines 125-141: the transport fails, or a status comes back. A 412 with a
\* truthy token enters the retry branch, whose self._headers is an attribute
\* no class defines; every other error status is raised again; 2xx returns.
SearchProductsResponse ==
  /\ UNCHANGED << routerVars, searchVars, mapVars >>
  /\ AuxUnchangedExcept("http")
  /\ http.pc = "awaiting"
  /\ \/ http' = [http EXCEPT !.pc = "raised", !.error = "httpx transport failure or timeout"]
     \/ \E st \in StatusCodes :
          http' = [http EXCEPT
            !.statuses = Append(http.statuses, st),
            !.pc = IF st = 200 THEN "returned" ELSE "raised",
            !.error = IF st = 200 THEN NoHttpError
                      ELSE IF st = precondition_failed /\ Truthy(http.context_token)
                        THEN "AttributeError: 'ProductClient' object has no attribute '_headers'"
                        ELSE "HTTPStatusError"]

HttpNext ==
  \/ SearchProductsEnter
  \/ SearchProductsPost
  \/ SearchProductsResponse

\* ------------------------------------------- context token of a session
\* Most executor calls of one session.
MaxSessionCalls == 3

SessionActions ==
  {"search_product_by_productNumber", "search_products_by_description", "get_product"}

ReturnedTokens == {PyNone, "tok-B", "tok-C"}

\* _execute_shopware_action lines 399-478: the context_token argument the
\* client method is called with. get_product_by_productNumber takes none.
TokenArgument(action, headerToken) ==
  IF action = "search_product_by_productNumber" THEN PyNone ELSE headerToken

\* Whether the client method gets as far as its HTTP request (see
\* ClientOutcomes).
ReachesHttp(action) == action = "search_product_by_productNumber"

\* get_product_by_productNumber lines 231-235: the request headers hold no
\* sw-context-token.
TokenSent(action, headerToken) == PyNone

\* header_info.contextToken after a call whose response carried a token:
\* nothing assigns it (wrap_response only reports the token, and
\* get_product_by_productNumber returns resp.json() alone).
HeaderTokenAfter(headerToken, returned) == headerToken

SessionIdle ==
  [pc |-> "idle", header_token |-> PyNone, calls |-> << >>, returned |-> << >>]

SessionInit ==
  \E t \in ContextTokens : session = [SessionIdle EXCEPT !.pc = "ready", !.header_token = t]

\* One _execute_shopware_action call with a header: the client method is
\* called with header_info.contextToken and sends its request, or raises
\* before any request.
SessionCall ==
  /\ UNCHANGED << routerVars, searchVars, mapVars >>
  /\ AuxUnchangedExcept("session")
  /\ session.pc = "ready"
  /\ Len(session.calls) < MaxSessionCalls
  /\ \E a \in SessionActions :
       session' = [session EXCEPT
         !.calls = Append(session.calls,
            [action |-> a, argument |-> TokenArgument(a, session.header_token),
             sent |-> ReachesHttp(a),
             token |-> IF ReachesHttp(a) THEN TokenSent(a, session.header_token) ELSE PyNone]),
         !.returned = IF ReachesHttp(a) THEN session.returned
                      ELSE Append(session.returned, PyNone),
         !.pc = IF ReachesHttp(a) THEN "awaiting" ELSE "ready"]

\* The storefront answers, with or without an sw-context-token header.
SessionResponse ==
  /\ UNCHANGED << routerVars, searchVars, mapVars >>
  /\ AuxUnchangedExcept("session")
  /\ session.pc = "awaiting"
  /\ \E t \in ReturnedTokens :
       session' = [session EXCEPT
         !.returned = Append(session.returned, t),
         !.header_token = HeaderTokenAfter(session.header_token, t),
         !.pc = "ready"]

SessionNext ==
  \/ SessionCall
  \/ SessionResponse

\* ------------------------------------- IntentAgent.classify_multi_intent
\* Most completion calls of one turn.
MaxCompletions == 2

\* Most entries of intent_list_order in a parsed MultiIntentResponse.
MaxListedIntents == 2

ListedIntents == {"communication", "get_product", "add_to_cart"}

\* What message.parsed holds: None or a MultiIntentResponse, known here by
\* its intent_list_order.
ParsedNone == [none |-> TRUE, intent_list_order |-> << >>]
ParsedResponses ==
  {[none |-> FALSE, intent_list_order |-> l] : l \in SeqsUpTo(ListedIntents, MaxListedIntents)}

NoClassifyError == "<no error>"

\* Lines 34-35 with the call made again instead of raising.
OnParsedNoneRetry(c) == [c EXCEPT !.pc = "start"]

\* Lines 34-35: raise RuntimeError.
OnParsedNone(c) ==
  [c EXCEPT !.pc = "raised",
            !.error = "RuntimeError: Failed to parse multi-intent response: parsed value is None"]

ClassifyIdle ==
  [pc |-> "idle", message |-> UserMessage, completions |-> << >>, parsed |-> ParsedNone,
   agent_calls |-> << >>, error |-> NoClassifyError]

ClassifyInit ==
  \E m \in {UserMessage, Fragment(1), Fragment(2), Fragment(3)} :
    classify = [ClassifyIdle EXCEPT !.pc = "start", !.message = m]

\* process_chat_request lines 42-43 and classify_multi_intent lines 21-28:
\* the prompt is built and the structured completion is requested.
ClassifyCall ==
  /\ UNCHANGED << routerVars, searchVars, mapVars >>
  /\ AuxUnchangedExcept("classify")
  /\ classify.pc = "start"
  /\ Len(classify.completions) < MaxCompletions
  /\ classify' = [classify EXCEPT !.pc = "awaiting",
                    !.completions = Append(classify.completions, classify.message)]

\* classify_multi_intent lines 23-36: the completion fails, or it returns and
\* parsed is None (RuntimeError) or a MultiIntentResponse (returned).
ClassifyComplete ==
  /\ UNCHANGED << routerVars, searchVars, mapVars >>
  /\ AuxUnchangedExcept("classify")
  /\ classify.pc = "awaiting"
  /\ \/ classify' = [classify EXCEPT !.pc = "raised", !.error = "remote completion failed"]
     \/ classify' = OnParsedNone(classify)
     \/ \E r \in ParsedResponses :
          classify' = [classify EXCEPT !.pc = "classified", !.parsed = r]

\* process_chat_request line 46: intent_data.primary_intent is read; the
\* MultiIntentResponse the classifier returns has no such field.
ReadPrimaryIntent ==
  /\ UNCHANGED << routerVars, searchVars, mapVars >>
  /\ AuxUnchangedExcept("classify")
  /\ classify.pc = "classified"
  /\ classify' = [classify EXCEPT !.pc = "raised",
       !.error = "AttributeError: 'MultiIntentResponse' object has no attribute 'primary_intent'"]

ClassifyNext ==
  \/ ClassifyCall
  \/ ClassifyComplete
  \/ ReadPrimaryIntent

\* ------------------------------------------------ _load_function_metadata
\* Most schema files listed.
MaxSources == 2

\* Most entries of one schema file.
MaxEntries == 2

\* One entry of a schema file: a dict with or without a truthy name and
\* description, or something that is no dict.
SchemaEntry(kind, name) == [kind |-> kind, name |-> name]

SchemaEntries ==
  { SchemaEntry("ok", "add_to_cart"), SchemaEntry("ok", "get_product"),
    SchemaEntry("no_name", PyNone), SchemaEntry("no_description", "find_variant"),
    SchemaEntry("not_dict", PyNone) }

\* One listed file: missing, not JSON, JSON that is neither list nor dict, a
\* dict (with its "functions" list, empty when the key is absent), or a list.
SchemaSource(kind, entries) == [kind |-> kind, entries |-> entries]

SchemaSources ==
  {SchemaSource(k, << >>) : k \in {"missing", "invalid_json", "not_list", "dict"}}
  \cup {SchemaSource("dict", <<e>>) : e \in {SchemaEntry("ok", "add_to_cart")}}
  \cup {SchemaSource("list", l) : l \in SeqsUpTo(SchemaEntries, MaxEntries)}

NoLoadError == "<no error>"

\* Lines 36-45: the entries are read in order; entry.get raises on an entry
\* that is no dict, an entry lacking a truthy name or description is passed
\* over, any other is stored under its name.
RECURSIVE MergeEntries(_, _)
MergeEntries(metadata, entries) ==
  IF entries = << >> THEN [raised |-> FALSE, metadata |-> metadata]
  ELSE IF Head(entries).kind = "not_dict" THEN [raised |-> TRUE, metadata |-> metadata]
  ELSE MergeEntries(IF Head(entries).kind = "ok"
                      THEN metadata \cup {Head(entries).name}
                      ELSE metadata,
                    Tail(entries))

\* Lines 21-45 for one file: FileNotFoundError, ValueError on invalid JSON,
\* "continue" on JSON that is no list, otherwise the entries are merged.
LoadOne(metadata, source) ==
  CASE source.kind = "missing" ->
         [error |-> "FileNotFoundError: Schema file not found", metadata |-> metadata]
    [] source.kind = "invalid_json" ->
         [error |-> "ValueError: Unable to parse schema file", metadata |-> metadata]
    [] source.kind = "not_list" ->
         [error |-> NoLoadError, metadata |-> metadata]
    [] OTHER ->
         IF MergeEntries(metadata, source.entries).raised
           THEN [error |-> "AttributeError: object has no attribute 'get'",
                 metadata |-> MergeEntries(metadata, source.entries).metadata]
           ELSE [error |-> NoLoadError,
                 metadata |-> MergeEntries(metadata, source.entries).metadata]

\* Lines 50-53 without the emptiness test.
FinishLoadAllowEmpty(c) == [c EXCEPT !.pc = "loaded"]

\* Lines 50-53: FUNCTION_SCHEMAS is bound, and an empty one raises ValueError.
FinishLoad(c) ==
  IF c.metadata = {}
    THEN [c EXCEPT !.pc = "raised",
                   !.error = "ValueError: No function descriptions could be loaded from schema files."]
    ELSE [c EXCEPT !.pc = "loaded"]

CatalogIdle ==
  [pc |-> "idle", sources |-> << >>, k |-> 1, metadata |-> {}, error |-> NoLoadError,
   prompts |-> << >>]

CatalogInit ==
  \E n \in 1..MaxSources : \E f \in [1..n -> SchemaSources] :
    catalog = [CatalogIdle EXCEPT !.pc = "loading", !.sources = f]

\* One iteration of the loop over schema_files, lines 20-45.
LoadSource ==
  /\ UNCHANGED << routerVars, searchVars, mapVars >>
  /\ AuxUnchangedExcept("catalog")
  /\ catalog.pc = "loading"
  /\ catalog.k <= Len(catalog.sources)
  /\ LET r == LoadOne(catalog.metadata, catalog.sources[catalog.k])
     IN catalog' = [catalog EXCEPT
          !.metadata = r.metadata,
          !.error = r.error,
          !.k = catalog.k + 1,
          !.pc = IF r.error = NoLoadError THEN "loading" ELSE "raised"]

\* Lines 47-53: the loop is over, the metadata is returned and tested.
LoadReturn ==
  /\ UNCHANGED << routerVars, searchVars, mapVars >>
  /\ AuxUnchangedExcept("catalog")
  /\ catalog.pc = "loading"
  /\ catalog.k > Len(catalog.sources)
  /\ catalog' = FinishLoad(catalog)

\* build_multi_intent_prompt, lines 69-92: a classifier prompt is built from
\* the catalog of the imported module.
BuildPrompt ==
  /\ UNCHANGED << routerVars, searchVars, mapVars >>
  /\ AuxUnchangedExcept("catalog")
  /\ catalog.pc = "loaded"
  /\ catalog' = [catalog EXCEPT !.pc = "prompted",
                   !.prompts = Append(catalog.prompts, catalog.metadata)]

CatalogNext ==
  \/ LoadSource
  \/ LoadReturn
  \/ BuildPrompt

\* -------------------------------------------- get_function_parameter_info
\* Most lookups made on one agent.
MaxParameterCalls == 2

\* The properties of the one parameterised action, in the file's order.
SchemaProperties == << "productNumber", "quantity" >>

\* One entry of self.tools: its name, the keys of parameters.properties and
\* parameters.required (has_required FALSE when the key is absent).
ToolSchema(name, properties, hasRequired, required) ==
  [name |-> name, properties |-> properties, has_required |-> hasRequired,
   required |-> required]

\* The content of a schema file: one action with parameters, one without.
SchemaFiles ==
  { << ToolSchema("add_to_cart", SchemaProperties, h.has, h.required),
       ToolSchema("get_cart", << >>, FALSE, << >>) >> :
    h \in { [has |-> FALSE, required |-> << >>],
            [has |-> TRUE, required |-> << >>],
            [has |-> TRUE, required |-> << "productNumber" >>],
            [has |-> TRUE, required |-> << "productNumber", "quantity" >>] } }

\* The params argument: each property absent (None), falsy or truthy.
LookupParams == [{"productNumber", "quantity"} -> {PyNone, "", "given"}]

\* list.remove(x): the first occurrence of x is taken out.
RECURSIVE ListRemove(_, _)
ListRemove(l, x) ==
  IF l = << >> THEN << >>
  ELSE IF Head(l) = x THEN Tail(l)
  ELSE << Head(l) >> \o ListRemove(Tail(l), x)

\* Lines 47-53: the index of the first entry named action_name, 0 when the
\* loop falls through and None is returned.
get_action_schema(tools, action_name) ==
  IF \E j \in DOMAIN tools : tools[j].name = action_name
    THEN CHOOSE j \in DOMAIN tools :
           /\ tools[j].name = action_name
           /\ \A q \in 1..(j - 1) : tools[q].name # action_name
    ELSE 0

\* Lines 69-73 over the properties from position j on: a property with a
\* truthy value that is in required_params is removed from required_params.
RECURSIVE RequiredAfter(_, _, _, _)
RequiredAfter(properties, j, params, required) ==
  IF j > Len(properties) THEN required
  ELSE RequiredAfter(properties, j + 1, params,
         IF Truthy(params[properties[j]]) /\ \E q \in DOMAIN required : required[q] = properties[j]
           THEN ListRemove(required, properties[j])
           ELSE required)

\* Lines 61 and 72: required_params is the schema's own list when the key is
\* present, so the removals are made in the schema; an absent key gives a
\* fresh list and the schema stays as it is.
StoredRequiredAfter(schema, params) ==
  IF schema.has_required
    THEN RequiredAfter(schema.properties, 1, params, schema.required)
    ELSE schema.required

\* Lines 65-73 and 76: the payload holds every property whose value is not None.
PayloadKeys(schema, params) ==
  {schema.properties[j] : j \in {q \in DOMAIN schema.properties : params[schema.properties[q]] # PyNone}}

SchemasIdle ==
  [pc |-> "idle", file |-> << >>, tools |-> << >>, answers |-> << >>]

SchemasInit ==
  \E f \in SchemaFiles : schemas = [SchemasIdle EXCEPT !.pc = "constructing", !.file = f]

\* load_function_schemas, lines 40-45, called from the agent's __init__.
LoadFunctionSchemas ==
  /\ UNCHANGED << routerVars, searchVars, mapVars >>
  /\ AuxUnchangedExcept("schemas")
  /\ schemas.pc = "constructing"
  /\ schemas' = [schemas EXCEPT !.pc = "ready", !.tools = schemas.file]

\* get_function_parameter_info(function_name, params), lines 55-76.
GetFunctionParameterInfo ==
  /\ UNCHANGED << routerVars, searchVars, mapVars >>
  /\ AuxUnchangedExcept("schemas")
  /\ schemas.pc = "ready"
  /\ Len(schemas.answers) < MaxParameterCalls
  /\ \E fn \in {"add_to_cart", "get_cart", "checkout"}, params \in LookupParams :
       LET j == get_action_schema(schemas.tools, fn)
       IN IF j = 0
            THEN schemas' = [schemas EXCEPT !.answers = Append(@,
                   [function |-> fn, params |-> params, raised |-> TRUE,
                    payload |-> {}, required |-> << >>])]
            ELSE schemas' = [schemas EXCEPT
                   !.tools[j].required = StoredRequiredAfter(schemas.tools[j], params),
                   !.answers = Append(@,
                     [function |-> fn, params |-> params, raised |-> FALSE,
                      payload |-> PayloadKeys(schemas.tools[j], params),
                      required |-> RequiredAfter(schemas.tools[j].properties, 1, params,
                                                 schemas.tools[j].required)])]

SchemasNext ==
  \/ LoadFunctionSchemas
  \/ GetFunctionParameterInfo

\* ------------------------------------- concurrent turns on one coordinator
\* Most intents in the sequence of one turn.
MaxTurnSteps == 2

TurnIds == {1, 2}

\* The SimpleHeaderInfo a turn hands to set_header_info.
TurnHeader(t) ==
  IF t = 1 THEN [languageId |-> "lang-1", contextToken |-> "token-1"]
           ELSE [languageId |-> "lang-2", contextToken |-> "token-2"]

\* Before set_header_info the coordinator has no header_info.
UnsetHeader == [languageId |-> PyNone, contextToken |-> PyNone]

\* How a plan_and_execute call of the loop ends: a plan with steps, a plan
\* without, or an exception.
TurnOutcomes == {"steps", "no_steps", "raised"}

\* Lines 91-92: the locals of one process_intent_sequences call, with the
\* language ids evaluated at line 110 kept as history.
NewTurn(n) ==
  [pc |-> "new", n |-> n, i |-> 0, sequence_results |-> << >>, context_data |-> {},
   languages |-> << >>]

\* Lines 114-122 and 130-137: the step result appended for step number k.
TurnStepResult(t, k, outcome) ==
  [turn |-> t, step |-> k, status |-> IF outcome = "raised" THEN "error" ELSE "success"]

TurnsIdle == [header_info |-> UnsetHeader, t |-> [t \in TurnIds |-> NewTurn(0)]]

TurnsInit ==
  \E n \in [TurnIds -> 1..MaxTurnSteps] :
    turns = [TurnsIdle EXCEPT !.t = [t \in TurnIds |-> NewTurn(n[t])]]

\* set_header_info (lines 148-149) and the entry of process_intent_sequences
\* up to the first await: line 110 reads self.header_info.languageId for the
\* first call, line 107 suspends the turn.
TurnEnter ==
  /\ UNCHANGED << routerVars, searchVars, mapVars >>
  /\ AuxUnchangedExcept("turns")
  /\ \E t \in TurnIds :
       /\ turns.t[t].pc = "new"
       /\ turns' = [turns EXCEPT
            !.header_info = TurnHeader(t),
            !.t[t].pc = "awaiting",
            !.t[t].languages = << TurnHeader(t).languageId >>]

\* The awaited plan_and_execute of line 107 ends: lines 113-137 append the
\* step result and extend context_data, then the loop either reads
\* self.header_info.languageId again for the next call or returns (line 140).
TurnResume ==
  /\ UNCHANGED << routerVars, searchVars, mapVars >>
  /\ AuxUnchangedExcept("turns")
  /\ \E t \in TurnIds, outcome \in TurnOutcomes :
       LET self == turns.t[t]
           k == self.i + 1
       IN /\ self.pc = "awaiting"
          /\ turns' = [turns EXCEPT
               !.t[t].sequence_results = Append(@, TurnStepResult(t, k, outcome)),
               !.t[t].context_data = IF outcome = "steps" THEN @ \cup {<< t, k >>} ELSE @,
               !.t[t].i = k,
               !.t[t].languages = IF k < self.n
                                    THEN Append(@, turns.header_info.languageId)
                                    ELSE @,
               !.t[t].pc = IF k < self.n THEN "awaiting" ELSE "returned"]

TurnsNext ==
  \/ TurnEnter
  \/ TurnResume

\* ------------------------------------------------ the seed of each agent call
\* Most steps of the turn whose context is followed.
MaxHandoffSteps == 3

\* Most changes an agent makes to the seed during one call.
MaxSeedWrites == 1

\* A dict as the set of its keys with their values.
DictSet(d, key, value) == [k \in DOMAIN d \cup {key} |-> IF k = key THEN value ELSE d[k]]
DictDel(d, key) == [k \in DOMAIN d \ {key} |-> d[k]]

\* Line 126: the key "step_{k}_results".
StepKey(k) == << "step_results", k >>

\* A key of the agent's own choosing.
AgentKey == << "agent_note", 0 >>

\* What an agent may do to the dict it received: add a key, change the value
\* of a key, remove a key.
SeedWrites(seed) ==
  {DictSet(seed, AgentKey, "added")}
  \cup {DictSet(seed, k, "changed") : k \in DOMAIN seed}
  \cup {DictDel(seed, k) : k \in DOMAIN seed}

HandoffIdle ==
  [pc |-> "idle", n |-> 0, i |-> 0, context_data |-> EmptyContext, built |-> EmptyContext,
   seeds |-> << >>, writes |-> 0, touched |-> FALSE]

HandoffInit ==
  \E n \in 1..MaxHandoffSteps :
    handoff = [HandoffIdle EXCEPT !.pc = "loop", !.n = n]

\* Lines 96-111: plan_and_execute(seed=context_data, ...) is called; the
\* argument is the dict object itself, no copy is made.
HandoffCall ==
  /\ UNCHANGED << routerVars, searchVars, mapVars >>
  /\ AuxUnchangedExcept("handoff")
  /\ handoff.pc = "loop"
  /\ handoff.i < handoff.n
  /\ handoff' = [handoff EXCEPT !.pc = "in_agent", !.writes = 0,
                   !.seeds = Append(@, handoff.context_data)]

\* The agent, while it runs, writes to the dict it was given; the dict is the
\* router's context_data (line 108), so the write is made there.
AgentWritesSeed ==
  /\ UNCHANGED << routerVars, searchVars, mapVars >>
  /\ AuxUnchangedExcept("handoff")
  /\ handoff.pc = "in_agent"
  /\ handoff.writes < MaxSeedWrites
  /\ \E d \in SeedWrites(handoff.context_data) :
       handoff' = [handoff EXCEPT !.context_data = d, !.writes = @ + 1, !.touched = TRUE]

\* Lines 113-138: the call returns a plan with steps (stored in the context),
\* a plan without, or raises; the loop goes on.
HandoffReturn ==
  /\ UNCHANGED << routerVars, searchVars, mapVars >>
  /\ AuxUnchangedExcept("handoff")
  /\ handoff.pc = "in_agent"
  /\ \E outcome \in TurnOutcomes :
       handoff' = [handoff EXCEPT
         !.pc = "loop",
         !.i = @ + 1,
         !.context_data = IF outcome = "steps"
                            THEN DictSet(@, StepKey(handoff.i + 1), "steps") ELSE @,
         !.built = IF outcome = "steps"
                     THEN DictSet(@, StepKey(handoff.i + 1), "steps") ELSE @]

HandoffNext ==
  \/ HandoffCall
  \/ AgentWritesSeed
  \/ HandoffReturn

\* ------------------------------------------- chat() and build_context_outline
\* Most edges and most nodes a search returns.
MaxFound == 2

\* Largest limit asked of build_context_outline.
MaxLimit == 2

Min(a, b) == IF a < b THEN a ELSE b

NoMemoryError == "<no error>"
MemoryError == "memory collaborator raised"

\* Lines 22-36: the number of lines collected: the anchor line, at most limit
\* edge lines when the edge result has an "edges" attribute, at most limit
\* node lines.
OutlineLines(anchored, hasEdges, edges, nodes, limit) ==
  (IF anchored THEN 1 ELSE 0)
  + (IF hasEdges THEN Min(edges, limit) ELSE 0)
  + Min(nodes, limit)

\* Lines 38-41: the fixed sentence when nothing was collected, else the
\* heading and at most limit lines.
Outline(lines, limit) ==
  IF lines = 0
    THEN [text |-> "No prior knowledge found.", lines |-> 0]
    ELSE [text |-> "Relevant knowledge (Graphiti):", lines |-> Min(lines, limit)]

NoOutline == [text |-> PyNone, lines |-> 0]

RecallIdle ==
  [entry |-> "none", pc |-> "idle", anchored |-> FALSE, limit |-> 1, has_edges |-> FALSE,
   edges |-> 0, nodes |-> 0, outline |-> NoOutline, error |-> NoMemoryError,
   memory_failed |-> FALSE]

RecallInit ==
  \/ recall = [RecallIdle EXCEPT !.entry = "chat", !.pc = "start"]
  \/ \E a \in BOOLEAN, l \in 1..MaxLimit :
       recall = [RecallIdle EXCEPT !.entry = "build_context_outline", !.pc = "start",
                   !.anchored = a, !.limit = l]

\* chat() lines 228-235: the episode is ingested; nothing catches a failure.
ChatIngestEpisode ==
  /\ UNCHANGED << routerVars, searchVars, mapVars >>
  /\ AuxUnchangedExcept("recall")
  /\ recall.entry = "chat"
  /\ recall.pc = "start"
  /\ \/ recall' = [recall EXCEPT !.pc = "ingested"]
     \/ recall' = [recall EXCEPT !.pc = "raised", !.error = MemoryError,
                     !.memory_failed = TRUE]

\* chat() lines 238-240: the classifier is awaited and response.primary_intent
\* is read from the MultiIntentResponse, which has no such field.
ChatClassifyAndLog ==
  /\ UNCHANGED << routerVars, searchVars, mapVars >>
  /\ AuxUnchangedExcept("recall")
  /\ recall.entry = "chat"
  /\ recall.pc = "ingested"
  /\ \/ recall' = [recall EXCEPT !.pc = "raised",
          !.error = "RuntimeError: Failed to get multi-intent classification"]
     \/ recall' = [recall EXCEPT !.pc = "raised",
          !.error = "AttributeError: 'MultiIntentResponse' object has no attribute 'primary_intent'"]

\* build_context_outline lines 15-19: the edge search is awaited.
OutlineSearchEdges ==
  /\ UNCHANGED << routerVars, searchVars, mapVars >>
  /\ AuxUnchangedExcept("recall")
  /\ recall.entry = "build_context_outline"
  /\ recall.pc = "start"
  /\ \/ \E h \in BOOLEAN, n \in 0..MaxFound :
          /\ (~h => n = 0)
          /\ recall' = [recall EXCEPT !.pc = "edges_done", !.has_edges = h, !.edges = n]
     \/ recall' = [recall EXCEPT !.pc = "raised", !.error = MemoryError,
                     !.memory_failed = TRUE]

\* Line 20: the node search is awaited.
OutlineSearchNodes ==
  /\ UNCHANGED << routerVars, searchVars, mapVars >>
  /\ AuxUnchangedExcept("recall")
  /\ recall.pc = "edges_done"
  /\ \/ \E n \in 0..MaxFound :
          recall' = [recall EXCEPT !.pc = "nodes_done", !.nodes = n]
     \/ recall' = [recall EXCEPT !.pc = "raised", !.error = MemoryError,
                     !.memory_failed = TRUE]

\* Lines 22-41: the outline is put together and returned.
OutlineReturn ==
  /\ UNCHANGED << routerVars, searchVars, mapVars >>
  /\ AuxUnchangedExcept("recall")
  /\ recall.pc = "nodes_done"
  /\ recall' = [recall EXCEPT !.pc = "returned",
       !.outline = Outline(OutlineLines(recall.anchored, recall.has_edges, recall.edges,
                                        recall.nodes, recall.limit), recall.limit)]

RecallNext ==
  \/ ChatIngestEpisode
  \/ ChatClassifyAndLog
  \/ OutlineSearchEdges
  \/ OutlineSearchNodes
  \/ OutlineReturn

\* ------------------------------------------------- _missing_required_fields
\* Most required fields of the schema entry.
MaxRequired == 2

IntZero == "<int 0>"
PyFalse == "<False>"
KeyAbsent == "<no key>"

GateFields == {"productNumber", "quantity", "options"}

\* dict.get(field) of line 342: None for a key the dict does not have.
PayloadGet(payload, field) ==
  IF payload[field] = KeyAbsent THEN PyNone ELSE payload[field]

\* The payload seen through dict.get.
PayloadView(payload) == [f \in DOMAIN payload |-> PayloadGet(payload, f)]

\* The values a payload key may carry.
GateValues == {KeyAbsent, PyNone, "", EmptyList, IntZero, PyFalse, "v", OptionList}

\* The schema entries: none for an unknown action, else a required list
\* without repetitions.
GateSchemas ==
  {NoSchema}
  \cup {[known |-> TRUE, required |-> r] :
          r \in {q \in SeqsUpTo(GateFields, MaxRequired) :
                   \A a, b \in DOMAIN q : a # b => q[a] # q[b]}}

GateIdle ==
  [pc |-> "idle", schema |-> NoSchema, payload |-> [f \in GateFields |-> KeyAbsent],
   missing |-> << >>]

GateInit ==
  \E sc \in GateSchemas, p \in [GateFields -> GateValues] :
    gate = [GateIdle EXCEPT !.pc = "called", !.schema = sc, !.payload = p]

\* _missing_required_fields(action, payload), lines 337-345.
MissingRequiredFields ==
  /\ UNCHANGED << routerVars, searchVars, mapVars >>
  /\ AuxUnchangedExcept("gate")
  /\ gate.pc = "called"
  /\ gate' = [gate EXCEPT !.pc = "done",
                !.missing = missing_required_fields(gate.schema, PayloadView(gate.payload))]

GateNext == MissingRequiredFields

\* ------------------------- _merge_with_intent_hints and _normalize_payload
\* Most IncludeDefinition entries of the extracted payload.
MaxIncludes == 2

\* Most classifier hints.
MaxHints == 2

\* The IncludeDefinition objects the extraction may hold.
IncludeDefinitions ==
  { [alias |-> "product", fields |-> << >>], [alias |-> "product", fields |-> <<"id">>],
    [alias |-> "media", fields |-> <<"id">>] }

\* The SearchPayload objects of the extraction.
ExtractedPayloads ==
  [search : {PyNone, "", "red shoes"},
   includes : {Absent} \cup {AsList(l) : l \in SeqsUpTo(IncludeDefinitions, MaxIncludes)},
   associations : {Absent},
   filter : {Absent}]

\* The hints: the function named and IntentParameters.search.
MergeHints ==
  { [function |-> "search_products_by_description", search |-> PyNone, productNumber |-> PyNone],
    [function |-> "search_products_by_description", search |-> "hinted", productNumber |-> PyNone],
    [function |-> "search_products_by_description", search |-> "second", productNumber |-> PyNone],
    [function |-> "list_products", search |-> "hinted", productNumber |-> PyNone],
    [function |-> "list_products", search |-> "second", productNumber |-> PyNone] }

\* dict.setdefault("search", value) on the flat payload; model_dump drops a
\* None, so PyNone is an absent key.
SetDefaultSearch(flat, value) ==
  IF flat.search = PyNone THEN [flat EXCEPT !.search = value] ELSE flat

\* _merge_with_intent_hints, lines 220-237, on the typed payload: without
\* hints nothing is touched; otherwise the payload goes through
\* _payload_to_dict, the first matching hint's search is set by default, and
\* _dict_to_payload builds the payload again.
MergedPayload(payload, action, hints) ==
  IF hints = << >> THEN payload
  ELSE LET k == FirstHintFrom(hints, action, 1)
           flat == payload_to_dict(payload)
       IN dict_to_payload(IF k # 0 /\ hints[k].search # PyNone
                            THEN SetDefaultSearch(flat, hints[k].search)
                            ELSE flat)

\* _normalize_payload, lines 323-335, on the typed payload: the dict returned.
NormalizedDict(payload, action, description) ==
  IF action = "search_products_by_description" /\ Truthy(description)
    THEN SetDefaultSearch(payload_to_dict(payload), description)
    ELSE payload_to_dict(payload)

MergeIdle ==
  [pc |-> "idle", action |-> PyNone, description |-> PyNone, hints |-> << >>,
   extracted |-> NoTyped, payload |-> NoTyped, dict |-> NoTyped]

MergeInit ==
  \E a \in {"search_products_by_description"}, d \in {PyNone, "described"},
     h \in SeqsUpTo(MergeHints, MaxHints), p \in ExtractedPayloads :
    merge = [MergeIdle EXCEPT !.pc = "extracted", !.action = a, !.description = d,
               !.hints = h, !.extracted = p, !.payload = p]

\* plan_search line 187.
MergeWithIntentHints ==
  /\ UNCHANGED << routerVars, searchVars, mapVars >>
  /\ AuxUnchangedExcept("merge")
  /\ merge.pc = "extracted"
  /\ merge' = [merge EXCEPT
       !.pc = "merged",
       !.payload = MergedPayload(merge.payload, merge.action, merge.hints),
       !.description = DescriptionAfterHints(merge.description, merge.action, merge.hints)]

\* plan_search line 188.
NormalizePayload ==
  /\ UNCHANGED << routerVars, searchVars, mapVars >>
  /\ AuxUnchangedExcept("merge")
  /\ merge.pc = "merged"
  /\ LET d == NormalizedDict(merge.payload, merge.action, merge.description)
     IN merge' = [merge EXCEPT !.pc = "normalized", !.dict = d,
                    !.payload = dict_to_payload(d)]

MergeNext ==
  \/ MergeWithIntentHints
  \/ NormalizePayload

\* ------------------------- update_line_items, remove_line_items, fetch_orders_list
\* The three operations with their HTTP method and path.
IdentityOperations ==
  { [name |-> "update_line_items", method |-> "PATCH", path |-> "/checkout/cart/line-item"],
    [name |-> "remove_line_items", method |-> "DELETE", path |-> "/checkout/cart/line-item"],
    [name |-> "fetch_orders_list", method |-> "POST", path |-> "/order"] }

\* The arguments of a call; extra_headers is None or names a header other
\* than the context token.
IdentityArguments ==
  [context_token : {PyNone, "", "tok-A"}, language_id : {PyNone, "de-DE"},
   sales_channel_id : {PyNone, "channel-1"}, extra_headers : {PyNone, "x-request-id"}]

\* The guard with "is None" in place of "not": an empty token passes.
TokenRequiredNoneOnly(context_token) == context_token = PyNone

\* Lines 77, 100 (cart client) and 20 (order client): if not context_token.
TokenRequired(context_token) == ~Truthy(context_token)

\* ShopwareBaseClient.create_header, lines 43-66: a header is set only for a
\* truthy argument; PyNone stands for a header that is not sent.
create_header(args) ==
  [context_token |-> IF Truthy(args.context_token) THEN args.context_token ELSE PyNone,
   language_id |-> IF Truthy(args.language_id) THEN args.language_id ELSE PyNone,
   sales_channel_id |-> IF Truthy(args.sales_channel_id) THEN args.sales_channel_id ELSE PyNone,
   extra |-> args.extra_headers]

IdentityIdle ==
  [pc |-> "idle", operation |-> PyNone,
   args |-> [context_token |-> PyNone, language_id |-> PyNone, sales_channel_id |-> PyNone,
             extra_headers |-> PyNone],
   requests |-> << >>, error |-> PyNone, status |-> 0]

IdentityInit ==
  \E o \in IdentityOperations, a \in IdentityArguments :
    identity = [IdentityIdle EXCEPT !.pc = "called", !.operation = o.name, !.args = a]

\* The operation up to its await: the guard raises ValueError, or the header
\* is built and the request sent.
IdentityCall ==
  /\ UNCHANGED << routerVars, searchVars, mapVars >>
  /\ AuxUnchangedExcept("identity")
  /\ identity.pc = "called"
  /\ IF TokenRequired(identity.args.context_token)
       THEN identity' = [identity EXCEPT !.pc = "raised",
              !.error = "ValueError: context_token is required"]
       ELSE \E o \in IdentityOperations :
              /\ o.name = identity.operation
              /\ identity' = [identity EXCEPT !.pc = "sent",
                   !.requests = Append(@, [method |-> o.method, path |-> o.path,
                                           headers |-> create_header(identity.args)])]

\* The response arrives and wrap_response returns it, whatever its status.
IdentityResponse ==
  /\ UNCHANGED << routerVars, searchVars, mapVars >>
  /\ AuxUnchangedExcept("identity")
  /\ identity.pc = "sent"
  /\ \E st \in {200, 403, 500} :
       identity' = [identity EXCEPT !.pc = "returned", !.status = st]

IdentityNext ==
  \/ IdentityCall
  \/ IdentityResponse

\* ------------------------------------------------------------ GraphitiMemory
\* Most calls made on the wrapper.
MaxMemoryCalls == 5

\* self.client is None (line 68).
NoClient == 0

\* The ingestion and search operations of the wrapper.
MemoryOperations == {"add_episode_text", "search_edges", "search_nodes_rrf"}

\* close() leaving self.client as it is.
ClientAfterCloseKept(client) == client

\* Line 82: self.client = None.
ClientAfterClose(client) == NoClient

\* One call in the history: what was called, the phase the wrapper was in,
\* how the call ended and the client it reached (NoClient: none).
MemoryCall(op, phase, outcome, client) ==
  [op |-> op, phase |-> phase, outcome |-> outcome, client |-> client]

\* After __init__: no client, nothing made, nothing closed.
MemoryIdle ==
  [client |-> NoClient, made |-> 0, closed |-> {}, phase |-> "new", calls |-> << >>]

MemoryInit == memory = MemoryIdle

\* initialize(), lines 72-76: a new client is bound, then the indices are
\* built; a failure there leaves the client bound.
MemoryInitialize ==
  /\ UNCHANGED << routerVars, searchVars, mapVars >>
  /\ AuxUnchangedExcept("memory")
  /\ Len(memory.calls) < MaxMemoryCalls
  /\ \E outcome \in {"returned", "raised"} :
       memory' = [memory EXCEPT
         !.client = memory.made + 1,
         !.made = @ + 1,
         !.phase = "open",
         !.calls = Append(@, MemoryCall("initialize", memory.phase, outcome, memory.made + 1))]

\* close(), lines 79-82: without a client nothing happens; otherwise the
\* client is closed and forgotten, or its close raises and it stays.
MemoryClose ==
  /\ UNCHANGED << routerVars, searchVars, mapVars >>
  /\ AuxUnchangedExcept("memory")
  /\ Len(memory.calls) < MaxMemoryCalls
  /\ IF memory.client = NoClient
       THEN memory' = [memory EXCEPT
              !.calls = Append(@, MemoryCall("close", memory.phase, "returned", NoClient))]
       ELSE \/ memory' = [memory EXCEPT
                 !.client = ClientAfterClose(memory.client),
                 !.closed = @ \cup {memory.client},
                 !.phase = "closed",
                 !.calls = Append(@, MemoryCall("close", memory.phase, "returned", memory.client))]
            \/ memory' = [memory EXCEPT
                 !.calls = Append(@, MemoryCall("close", memory.phase, "raised", memory.client))]

\* add_episode_text, search_edges, search_nodes_rrf: _need() (lines 264-267)
\* raises RuntimeError without a client, otherwise the client is called.
MemoryOperation ==
  /\ UNCHANGED << routerVars, searchVars, mapVars >>
  /\ AuxUnchangedExcept("memory")
  /\ Len(memory.calls) < MaxMemoryCalls
  /\ \E op \in MemoryOperations :
       IF memory.client = NoClient
         THEN memory' = [memory EXCEPT
                !.calls = Append(@, MemoryCall(op, memory.phase, "not_initialized", NoClient))]
         ELSE \E outcome \in {"returned", "raised"} :
                memory' = [memory EXCEPT
                  !.calls = Append(@, MemoryCall(op, memory.phase, outcome, memory.client))]

MemoryNext ==
  \/ MemoryInitialize
  \/ MemoryClose
  \/ MemoryOperation

\* ---------------------------------------------------------- specifications
vars == << routerVars, searchVars, mapVars, auxVars >>

RouterIdle ==
  /\ binding = "shipped"
  /\ header_set = FALSE
  /\ languageId = PyNone
  /\ primary_intent = "search"
  /\ intent_sequence = << >>
  /\ message_parts = << >>
  /\ pc = "idle"
  /\ i = 0
  /\ sequence_results = << >>
  /\ outcomes = << >>
  /\ context_data = EmptyContext
  /\ calls = << >>
  /\ inflight = 0
  /\ response = NoResponse

SearchIdle ==
  /\ s_pc = "idle"
  /\ s_header = PyNone
  /\ s_schema = NoSchema
  /\ s_hints = NoHints
  /\ s_action = PyNone
  /\ s_payload = EmptyPayload
  /\ s_missing = << >>
  /\ s_comm_calls = << >>
  /\ s_executor_calls = << >>
  /\ s_client_calls = << >>
  /\ s_exception = NoException
  /\ s_reply = NoReply
  /\ s_communication = NoCommunication
  /\ s_shopware = NoShopwareResponse

\* Every component record but the named one is idle.
AuxIdleExcept(name) ==
  /\ (name # "conv" => conv = ConvIdle)
  /\ (name # "inbound" => inbound = InboundIdle)
  /\ (name # "http" => http = HttpIdle)
  /\ (name # "session" => session = SessionIdle)
  /\ (name # "classify" => classify = ClassifyIdle)
  /\ (name # "catalog" => catalog = CatalogIdle)
  /\ (name # "schemas" => schemas = SchemasIdle)
  /\ (name # "turns" => turns = TurnsIdle)
  /\ (name # "handoff" => handoff = HandoffIdle)
  /\ (name # "recall" => recall = RecallIdle)
  /\ (name # "gate" => gate = GateIdle)
  /\ (name # "merge" => merge = MergeIdle)
  /\ (name # "identity" => identity = IdentityIdle)
  /\ (name # "memory" => memory = MemoryIdle)

\* One turn of the coordinator.
Init == RouterInit /\ SearchIdle /\ MapInit /\ AuxIdleExcept("")

Next == RouterNext

Spec == Init /\ [][Next]_vars

\* One call of SearchAgent.plan_search.
InitSearch == RouterIdle /\ SearchInit /\ MapInit /\ AuxIdleExcept("")

NextSearch == SearchNext

SpecSearch == InitSearch /\ [][NextSearch]_vars

\* Lookups in the intent table.
InitMap == RouterIdle /\ SearchIdle /\ MapInit /\ AuxIdleExcept("")

NextMap == MapNext

SpecMap == InitMap /\ [][NextMap]_vars

\* One round trip of the payload conversions.
InitConv == RouterIdle /\ SearchIdle /\ MapInit /\ AuxIdleExcept("conv") /\ ConvInit

SpecConv == InitConv /\ [][ConvNext]_vars

\* One request to /chat up to the classifier call.
InitInbound == RouterIdle /\ SearchIdle /\ MapInit /\ AuxIdleExcept("inbound") /\ InboundInit

SpecInbound == InitInbound /\ [][InboundNext]_vars

\* One call of ProductClient.search_products.
InitHttp == RouterIdle /\ SearchIdle /\ MapInit /\ AuxIdleExcept("http") /\ HttpInit

SpecHttp == InitHttp /\ [][HttpNext]_vars

\* The storefront calls of one session.
InitSession == RouterIdle /\ SearchIdle /\ MapInit /\ AuxIdleExcept("session") /\ SessionInit

SpecSession == InitSession /\ [][SessionNext]_vars

\* One process_chat_request up to the routing decision.
InitClassify == RouterIdle /\ SearchIdle /\ MapInit /\ AuxIdleExcept("classify") /\ ClassifyInit

SpecClassify == InitClassify /\ [][ClassifyNext]_vars

\* One import of multi_intent.py.
InitCatalog == RouterIdle /\ SearchIdle /\ MapInit /\ AuxIdleExcept("catalog") /\ CatalogInit

SpecCatalog == InitCatalog /\ [][CatalogNext]_vars

\* One agent, its schema file loaded, and the lookups made on it.
InitSchemas == RouterIdle /\ SearchIdle /\ MapInit /\ AuxIdleExcept("schemas") /\ SchemasInit

SpecSchemas == InitSchemas /\ [][SchemasNext]_vars

\* Two turns interleaved at the awaits of the loop.
InitTurns == RouterIdle /\ SearchIdle /\ MapInit /\ AuxIdleExcept("turns") /\ TurnsInit

SpecTurns == InitTurns /\ [][TurnsNext]_vars

\* One turn's context and the agents that receive it.
InitHandoff == RouterIdle /\ SearchIdle /\ MapInit /\ AuxIdleExcept("handoff") /\ HandoffInit

SpecHandoff == InitHandoff /\ [][HandoffNext]_vars

\* One chat() request, or one call of build_context_outline.
InitRecall == RouterIdle /\ SearchIdle /\ MapInit /\ AuxIdleExcept("recall") /\ RecallInit

SpecRecall == InitRecall /\ [][RecallNext]_vars

\* One call of _missing_required_fields.
InitGate == RouterIdle /\ SearchIdle /\ MapInit /\ AuxIdleExcept("gate") /\ GateInit

SpecGate == InitGate /\ [][GateNext]_vars

\* One extraction taken through the hint merge and the normalization.
InitMerge == RouterIdle /\ SearchIdle /\ MapInit /\ AuxIdleExcept("merge") /\ MergeInit

SpecMerge == InitMerge /\ [][MergeNext]_vars

\* One call of an operation that needs the context token.
InitIdentity == RouterIdle /\ SearchIdle /\ MapInit /\ AuxIdleExcept("identity") /\ IdentityInit

SpecIdentity == InitIdentity /\ [][IdentityNext]_vars

\* One wrapper and the calls made on it, one after the other.
InitMemory == RouterIdle /\ SearchIdle /\ MapInit /\ AuxIdleExcept("memory") /\ MemoryInit

SpecMemory == InitMemory /\ [][MemoryNext]_vars

\* ================================================================== claims
\* C1: when process_intent_sequences returns, sequence_results has exactly one
\* entry per intent index, in order (none skipped, none duplicated), and
\* total_steps is the length of the intent sequence.
C1_OneResultPerIntent ==
  (pc = "done" /\ response.status = "multi_intent_complete") =>
    /\ Len(response.sequence_results) = Len(intent_sequence)
    /\ response.total_steps = Len(intent_sequence)
    /\ \A k \in 1..Len(intent_sequence) :
         /\ response.sequence_results[k].step = k
         /\ response.sequence_results[k].intent = intent_sequence[k]

\* C1 witness: with the agents of the table a three-intent turn returned three
\* results although every step failed.
C1_Witness ==
  /\ binding = "shipped"
  /\ pc = "done"
  /\ response.status = "multi_intent_complete"
  /\ intent_sequence = <<"search", "cart", "order">>
  /\ Len(response.sequence_results) = 3
  /\ response.total_steps = 3
  /\ \A k \in 1..3 : response.sequence_results[k].status = "error"

C3_SequentialInOrder ==
  /\ inflight <= 1
  /\ (pc = "calling") <=> (inflight = 1 /\ primary_intent \notin {"greeting", "unclear"})
  /\ primary_intent \notin {"greeting", "unclear"} =>
       /\ Len(calls) = Len(outcomes) + inflight
       /\ Len(sequence_results) = Len(outcomes)
       /\ \A k \in 1..Len(calls) :
            /\ calls[k].idx = k - 1
            /\ calls[k].intent = intent_sequence[k]
       /\ \A k \in 1..Len(sequence_results) :
            /\ sequence_results[k].step = k
            /\ sequence_results[k].intent = calls[k].intent
       /\ (pc = "done" => Len(calls) = Len(intent_sequence))

\* C3 witness: with the agents of the table a three-intent turn returned after
\* three calls, the failed first one not tried again.
C3_Witness ==
  /\ binding = "shipped"
  /\ pc = "done"
  /\ Len(intent_sequence) = 3
  /\ Len(calls) = 3
  /\ sequence_results[1].status = "error"
  /\ calls[2].idx = 1
  /\ calls[3].idx = 2
  /\ inflight = 0

C5_LacksRequired ==
  /\ s_schema.known
  /\ \E k \in 1..Len(s_schema.required) :
       s_payload[s_schema.required[k]] \in {PyNone, "", EmptyList}

C5_GatePassed ==
  \/ s_pc \in {"asking", "executing", "client_call", "returned"}
  \/ (s_pc = "raised" /\ s_exception.origin \in {"communication", "executor"})

C5_ExecutorGated ==
  (C5_GatePassed /\ C5_LacksRequired) =>
    /\ s_executor_calls = << >>
    /\ s_client_calls = << >>
    /\ Len(s_comm_calls) = 1
    /\ s_comm_calls[1].missing # << >>
    /\ (s_pc = "returned" =>
          /\ s_communication # NoCommunication
          /\ s_shopware = NoShopwareResponse)

\* C5 witness: find_variant with productId given and options absent returned
\* a communication plan without any executor call.
C5_Witness ==
  /\ s_pc = "returned"
  /\ s_action = "find_variant"
  /\ s_schema.known /\ s_schema.required = <<"productId", "options">>
  /\ s_payload["productId"] = "v"
  /\ s_payload["options"] = PyNone
  /\ s_missing = <<"options">>
  /\ s_communication # NoCommunication
  /\ s_executor_calls = << >>

\* C6: map_intent_to_agent answers every tag with one of the four agents:
\* "search", "cart" and "order" with theirs, every other tag ("communication",
\* "greeting", "unclear", unknown ones) with the Communication agent.
C6_TotalMapping ==
  \A k \in 1..Len(lookups) :
    LET t == lookups[k].intent
        a == lookups[k].agent
    IN /\ a \in Agents
       /\ (t = "search" => a = "SearchAgent")
       /\ (t = "cart" => a = "CartAgent")
       /\ (t = "order" => a = "OrderAgent")
       /\ (t \notin {"search", "cart", "order"} => a = "CommunicationAgent")

\* C6 witness: an unknown tag and "unclear" were both mapped.
C6_Witness ==
  /\ Len(lookups) = 2
  /\ lookups[1].intent = "checkout" /\ lookups[1].agent = "CommunicationAgent"
  /\ lookups[2].intent = "unclear" /\ lookups[2].agent = "CommunicationAgent"

\* C7: a turn whose primary intent is "greeting" or "unclear", started with the
\* header set and whose remote completion does not fail, ends with the router
\* returning status "non_shopping_request", agent "communication" and
\* is_shopping_related false.
C7_ReturnsNonShoppingResponse ==
  (/\ primary_intent \in {"greeting", "unclear"}
   /\ header_set
   /\ pc \in {"done", "raised"}
   /\ response # [status |-> "raised", error |-> "remote completion failed"]) =>
    /\ pc = "done"
    /\ response.status = "non_shopping_request"
    /\ response.agent = "communication"
    /\ response.is_shopping_related = FALSE

\* C7, the part about which agents are invoked: on that path the router never
\* enters the per-intent loop and starts one call only, that of the
\* Communication agent.
C7_OnlyCommunicationInvoked ==
  primary_intent \in {"greeting", "unclear"} =>
    /\ pc \notin {"loop", "calling"}
    /\ sequence_results = << >>
    /\ outcomes = << >>
    /\ Len(calls) <= 1
    /\ \A k \in 1..Len(calls) :
         calls[k].agent = "CommunicationAgent" /\ calls[k].path = "non_shopping"
    /\ (pc \in {"calling_non_shopping", "done", "raised"} => Len(calls) = 1)
    /\ (pc = "done" => response.status = "non_shopping_request")

\* C7 witness: an "unclear" turn with a language id and an intent sequence
\* naming search, cart and order ended in the Communication agent's call.
C7_Witness ==
  /\ binding = "shipped"
  /\ primary_intent = "unclear"
  /\ languageId = "de-DE"
  /\ intent_sequence = <<"search", "cart", "order">>
  /\ Len(calls) = 1
  /\ pc = "raised"
  /\ response.error = "AttributeError: 'str' object has no attribute 'languageId'"

\* C8: with the agents the table holds, no step ends with status "error"
\* because plan_and_execute is absent, unimplemented or rejects the router's
\* arguments.
C8_EntryPointWorks ==
  binding = "shipped" =>
    \A k \in 1..Len(sequence_results) : sequence_results[k].error \notin EntryErrors

\* C9: an exception raised inside _execute_shopware_action (a payload check,
\* the client call) ends as the result {error: message}; plan_search never
\* raises once the executor has been entered.
C9_ExecutorExceptionsAbsorbed ==
  /\ s_exception.origin = "executor" =>
       /\ s_pc = "returned"
       /\ s_shopware = [kind |-> "error", value |-> s_exception.error]
  /\ s_pc = "raised" => s_executor_calls = << >>

\* C9 witness: the client call failed in transport and plan_search returned
\* the error result.
C9_Witness ==
  /\ s_pc = "returned"
  /\ s_client_calls = <<"search_product_by_productNumber">>
  /\ s_exception = [origin |-> "executor", error |-> "httpx transport failure or timeout"]
  /\ s_shopware.kind = "error"

\* C10: a communication plan built on the missing-field path has a non-empty
\* message, and it is "Could you provide the missing information?" whenever
\* the model's plan has no steps, no parameters or no non-empty message.
C10_NonEmptyMessage ==
  (s_pc = "returned" /\ s_missing # << >>) =>
    /\ s_communication.message \notin {PyNone, ""}
    /\ (s_reply.shape # "parameters" \/ s_reply.message \in {PyNone, ""}) =>
         s_communication.message = "Could you provide the missing information?"

\* C10 witness: the model's first step carried an empty message and the plan
\* has the fallback question.
C10_Witness ==
  /\ s_pc = "returned"
  /\ s_missing # << >>
  /\ s_reply.shape = "parameters"
  /\ s_reply.message = ""
  /\ s_communication.message = "Could you provide the missing information?"

\* C11: for every well-formed flat payload x (includes an alias-to-fields map,
\* associations a name-to-settings map, filter entries with a parameters map)
\* the conversion to the typed payload succeeds and converting back gives x.
C11_RoundTrip ==
  conv.pc \in {"done", "raised"} => (conv.pc = "done" /\ conv.out = conv.x)

\* C11, the inputs on which the law does hold: no empty includes or
\* associations map, and every association's settings name "includes".
C11_RoundTripWhereIncludesGiven ==
  (/\ conv.pc \in {"done", "raised"}
   /\ (conv.x.includes.shape = "map" => DOMAIN conv.x.includes.map # {})
   /\ (conv.x.associations.shape = "map" => DOMAIN conv.x.associations.map # {})
   /\ \A n \in DOMAIN conv.x.associations.map : conv.x.associations.map[n].has_includes) =>
    (conv.pc = "done" /\ conv.out = conv.x)

\* C11 witness: associations {"manufacturer": {"limit": 2}} came back as
\* {"manufacturer": {"includes": [], "limit": 2}}.
C11_Witness ==
  /\ conv.pc = "done"
  /\ conv.x.associations = AsMap([n \in {"manufacturer"} |-> [has_includes |-> FALSE, includes |-> << >>, limit |-> IntTwo]])
  /\ conv.out.associations = AsMap([n \in {"manufacturer"} |-> [has_includes |-> TRUE, includes |-> << >>, limit |-> IntTwo]])
  /\ conv.out # conv.x

\* C12: a message whose stripped text is empty or longer than 2000 characters
\* is rejected with a validation error and never reaches memory ingestion or
\* classification; a message of exactly 2000 characters is accepted.
C12_RejectedBeforeClassification ==
  /\ (/\ inbound.pc \notin {"idle", "start"}
      /\ inbound.body.kind = "str"
      /\ (inbound.body.core = 0 \/ inbound.body.core > 2000)) =>
       /\ inbound.pc = "rejected"
       /\ inbound.episodes = << >>
       /\ inbound.classified = << >>
  /\ (/\ inbound.pc \notin {"idle", "start"}
      /\ inbound.body = Message("str", 0, 2000, 0, TRUE)) =>
       (inbound.pc # "rejected" /\ inbound.value = StrValue(2000))

\* C12, the part that holds: a message of exactly 2000 characters (with a
\* letter) is accepted as it is, and the classifier never gets a string that
\* is empty or longer than 2000.
C12_AcceptsUpTo2000 ==
  /\ (/\ inbound.pc \notin {"idle", "start"}
      /\ inbound.body = Message("str", 0, 2000, 0, TRUE)) =>
       (inbound.pc # "rejected" /\ inbound.value = StrValue(2000))
  /\ \A k \in 1..Len(inbound.classified) :
       inbound.classified[k].none \/ inbound.classified[k].len \in 1..2000

\* C12 witness: a 2001-character message was logged as too long, the request
\* went on, and the classifier was called with None.
C12_Witness ==
  /\ inbound.body = Message("str", 0, 2001, 0, TRUE)
  /\ inbound.logged = "Customer message is too long"
  /\ inbound.pc = "classifying"
  /\ inbound.classified = <<NoneValue>>

\* C13: a search_products call made with a context token ends with a request
\* having been sent, and when the first response was 412 exactly one more
\* request was sent, without the token.
C13_RetryOnceWithoutToken ==
  (http.pc \in {"returned", "raised"} /\ Truthy(http.context_token)) =>
    /\ Len(http.requests) >= 1
    /\ (Len(http.statuses) >= 1 /\ http.statuses[1] = 412) =>
         /\ Len(http.requests) = 2
         /\ http.requests[2].token = PyNone

\* C13, the part that holds: no call sends more than one request, so a 412
\* without a token, any other error status, and a failed request are never
\* retried.
C13_NoRetryOtherwise ==
  /\ Len(http.requests) <= 1
  /\ Len(http.statuses) <= 1

\* C13 witness: with a logger bound, a call with a token got 412 and ended in
\* the retry branch's AttributeError after one request.
C13_Witness ==
  /\ http.pc = "raised"
  /\ http.context_token = "tok-A"
  /\ http.statuses = <<412>>
  /\ Len(http.requests) = 1
  /\ http.error = "AttributeError: 'ProductClient' object has no attribute '_headers'"

\* C14: every storefront request sent after a response that carried a context
\* token is sent with the latest token returned.
C14_TokenThreaded ==
  \A j \in 1..Len(session.calls) :
    \A k \in 1..(j - 1) :
      (/\ session.calls[j].sent
       /\ k <= Len(session.returned)
       /\ session.returned[k] # PyNone
       /\ \A h \in (k + 1)..(j - 1) : session.returned[h] = PyNone) =>
        session.calls[j].token = session.returned[k]

\* C14 witness: the first request's response carried tok-B and the second
\* request went out without a token.
C14_Witness ==
  /\ Len(session.calls) >= 2
  /\ session.calls[1].sent
  /\ session.returned[1] = "tok-B"
  /\ session.calls[2].sent
  /\ session.calls[2].token = PyNone
  /\ session.header_token = "tok-A"

\* C15: when the completion returns no parsed result the turn ends with the
\* classifier's RuntimeError, not caught by the router; a turn makes at most
\* one completion call, and no planning agent is invoked in a turn whose
\* classification failed.
C15_ParseFailureIsFinal ==
  /\ Len(classify.completions) <= 1
  /\ (classify.pc \in {"classified", "raised"} => Len(classify.completions) = 1)
  /\ (classify.parsed.none /\ classify.pc \notin {"idle", "start", "awaiting"}) =>
       /\ classify.pc = "raised"
       /\ classify.error \in
            {"RuntimeError: Failed to parse multi-intent response: parsed value is None",
             "remote completion failed"}
       /\ classify.agent_calls = << >>

\* C15 witness: parsed was None, the turn raised the RuntimeError after one
\* completion call and without any agent call.
C15_Witness ==
  /\ classify.pc = "raised"
  /\ classify.error = "RuntimeError: Failed to parse multi-intent response: parsed value is None"
  /\ Len(classify.completions) = 1
  /\ classify.agent_calls = << >>

\* C16: a failed planning call (remote completion failure or timeout) never
\* leaves the router: in the per-intent loop it becomes an error step result,
\* and on the greeting/unclear path the router returns a response too.
C16_PlanningFailureAbsorbed ==
  /\ \A k \in 1..Len(outcomes) :
       (outcomes[k].kind = "raise" /\ outcomes[k].error = "remote completion failed") =>
         sequence_results[k].status = "error"
  /\ ~(pc = "raised" /\ response.error = "remote completion failed")

\* C16, the part that holds: in the per-intent loop a failed planning call is
\* recorded as an error step and the turn does not raise.
C16_LoopAbsorbsFailure ==
  /\ \A k \in 1..Len(outcomes) :
       outcomes[k].kind = "raise" =>
         (sequence_results[k].status = "error" /\ sequence_results[k].error = outcomes[k].error)
  /\ (pc = "raised" => primary_intent \in {"greeting", "unclear"})

\* C16 witness: a greeting turn with the shipped Communication agent and no
\* language id ended with the completion's failure leaving the router.
C16_Witness ==
  /\ binding = "shipped"
  /\ header_set
  /\ languageId = PyNone
  /\ primary_intent = "greeting"
  /\ pc = "raised"
  /\ response.error = "remote completion failed"
  /\ Len(calls) = 1

\* C17: loading ends with an error when a listed source is missing or
\* malformed: not valid JSON, not a sequence of entries, or holding an entry
\* without both a name and a description; nothing malformed is passed over.
C17_Malformed(source) ==
  \/ source.kind \in {"missing", "invalid_json", "not_list"}
  \/ \E j \in DOMAIN source.entries : source.entries[j].kind # "ok"

C17_MalformedSourceFails ==
  (/\ catalog.pc \in {"loaded", "prompted", "raised"}
   /\ \E j \in DOMAIN catalog.sources : C17_Malformed(catalog.sources[j])) =>
    catalog.pc = "raised"

\* C17, the part that holds: a missing file and a file that is no JSON end
\* the load with an error.
C17_MissingOrUnparsableFails ==
  (/\ catalog.pc \in {"loaded", "prompted", "raised"}
   /\ \E j \in DOMAIN catalog.sources :
        catalog.sources[j].kind \in {"missing", "invalid_json"}) =>
    catalog.pc = "raised"

\* C17 witness: a file that is no list and a file with an entry lacking its
\* name were passed over and the catalog was loaded from the rest.
C17_Witness ==
  /\ catalog.pc = "loaded"
  /\ catalog.sources =
       << SchemaSource("not_list", << >>),
          SchemaSource("list", <<SchemaEntry("no_name", PyNone), SchemaEntry("ok", "get_product")>>) >>
  /\ catalog.metadata = {"get_product"}

\* C18: when every source has been read and the merged catalog is empty the
\* load ends with an error; a loaded catalog is never empty and no classifier
\* prompt is built from an empty one.
C18_EmptyCatalogFails ==
  /\ (catalog.pc \in {"loaded", "prompted"} => catalog.metadata # {})
  /\ \A j \in 1..Len(catalog.prompts) : catalog.prompts[j] # {}
  /\ (/\ catalog.pc \notin {"idle", "loading"}
      /\ catalog.k > Len(catalog.sources)
      /\ catalog.metadata = {}) =>
       (catalog.pc = "raised" /\ catalog.error # NoLoadError)

\* C18 witness: two readable sources without a usable entry ended the load
\* with the ValueError of the emptiness test.
C18_Witness ==
  /\ catalog.pc = "raised"
  /\ Len(catalog.sources) = 2
  /\ catalog.k = 3
  /\ catalog.sources[1].kind = "dict"
  /\ catalog.sources[2].kind = "list"
  /\ catalog.metadata = {}
  /\ catalog.error = "ValueError: No function descriptions could be loaded from schema files."

\* C19: a loaded schema is never changed: whatever lookups are made, the
\* schemas the agent holds are those of the file, and two lookups of the same
\* action with the same parameters report the same required fields.
C19_SchemaNeverChanged ==
  schemas.pc = "ready" =>
    /\ schemas.tools = schemas.file
    /\ \A a, b \in DOMAIN schemas.answers :
         (/\ schemas.answers[a].function = schemas.answers[b].function
          /\ schemas.answers[a].params = schemas.answers[b].params) =>
           schemas.answers[a].required = schemas.answers[b].required

\* C19, the part that holds: names and properties stay as loaded, a required
\* list only loses fields, and a schema without a "required" key never changes.
C19_OnlyRequiredShrinks ==
  schemas.pc = "ready" =>
    \A j \in DOMAIN schemas.tools :
      /\ schemas.tools[j].name = schemas.file[j].name
      /\ schemas.tools[j].properties = schemas.file[j].properties
      /\ \A q \in DOMAIN schemas.tools[j].required :
           \E k \in DOMAIN schemas.file[j].required :
             schemas.file[j].required[k] = schemas.tools[j].required[q]
      /\ (~schemas.file[j].has_required => schemas.tools[j] = schemas.file[j])

\* C19 witness: a lookup of add_to_cart with a product number took the field
\* out of the schema, and the next lookup without parameters no longer
\* reports it as required.
C19_Witness ==
  /\ schemas.pc = "ready"
  /\ schemas.file[1].required = << "productNumber", "quantity" >>
  /\ schemas.tools[1].required = << "quantity" >>
  /\ Len(schemas.answers) = 2
  /\ schemas.answers[1].function = "add_to_cart"
  /\ schemas.answers[1].params["productNumber"] = "given"
  /\ schemas.answers[2].function = "add_to_cart"
  /\ schemas.answers[2].params = [p \in {"productNumber", "quantity"} |-> PyNone]
  /\ schemas.answers[2].required = << "quantity" >>

\* C20: with two turns interleaved on one coordinator, every agent invocation
\* of a turn is given that turn's own language id, and a turn's step results
\* and accumulated context hold only that turn's steps.
C20_TurnsIsolated ==
  \A t \in TurnIds :
    /\ \A k \in DOMAIN turns.t[t].languages :
         turns.t[t].languages[k] = TurnHeader(t).languageId
    /\ \A k \in DOMAIN turns.t[t].sequence_results :
         turns.t[t].sequence_results[k].turn = t
    /\ \A c \in turns.t[t].context_data : c[1] = t

\* C20, the part that holds: step results and accumulated context are locals
\* of the call and hold the turn's own steps in order, and the first
\* invocation of a turn uses the turn's own language id.
C20_LocalsOwn ==
  \A t \in TurnIds :
    /\ \A k \in DOMAIN turns.t[t].sequence_results :
         /\ turns.t[t].sequence_results[k].turn = t
         /\ turns.t[t].sequence_results[k].step = k
    /\ \A c \in turns.t[t].context_data : c[1] = t /\ c[2] \in 1..turns.t[t].i
    /\ (turns.t[t].languages # << >> =>
          turns.t[t].languages[1] = TurnHeader(t).languageId)

\* C20 witness: turn 2 called set_header_info while turn 1 was suspended in
\* its first step, and turn 1 made its second invocation with turn 2's
\* language id.
C20_Witness ==
  /\ turns.t[1].pc = "returned"
  /\ turns.t[1].n = 2
  /\ turns.t[1].languages = << "lang-1", "lang-2" >>
  /\ Len(turns.t[1].sequence_results) = 2
  /\ turns.t[2].pc # "new"

\* C21: the accumulated context is handed over by value: whatever an agent
\* does to its seed, the router's context holds exactly what the router
\* stored, and so does the seed of every later step.
C21_SeedByValue ==
  /\ handoff.pc = "loop" => handoff.context_data = handoff.built
  /\ \A k \in DOMAIN handoff.seeds :
       \A key \in DOMAIN handoff.seeds[k] :
         /\ key \in {StepKey(j) : j \in 1..(k - 1)}
         /\ handoff.seeds[k][key] = "steps"

\* C21, the part that holds: as long as no agent wrote to its seed, the
\* context is what the router stored.
C21_UntouchedContextIsBuilt ==
  ~handoff.touched => handoff.context_data = handoff.built

\* C21 witness: the agent of step 1 added a key to its seed and the seed of
\* step 2 carries that key.
C21_Witness ==
  /\ Len(handoff.seeds) = 2
  /\ handoff.seeds[1] = EmptyContext
  /\ AgentKey \in DOMAIN handoff.seeds[2]
  /\ handoff.built = EmptyContext

\* C22: a failure of the memory collaborator (ingestion, edge search, node
\* search) does not abort the turn: no call ends with the collaborator's
\* exception, and an outline built after a failure is the one for no prior
\* knowledge.
C22_MemoryFailureAbsorbed ==
  /\ recall.pc = "raised" => recall.error # MemoryError
  /\ (recall.memory_failed /\ recall.pc = "returned") =>
       recall.outline.text = "No prior knowledge found."

\* C22, the part that holds: searches that find nothing give the outline
\* "No prior knowledge found.", and a returned outline never has more lines
\* than the limit.
C22_NothingFoundOutline ==
  recall.pc = "returned" =>
    /\ recall.outline.lines <= recall.limit
    /\ (~recall.anchored /\ recall.edges = 0 /\ recall.nodes = 0) =>
         recall.outline.text = "No prior knowledge found."

\* C22 witness: the edge search found an edge, the node search raised, and
\* build_context_outline ended with that exception and no outline.
C22_Witness ==
  /\ recall.entry = "build_context_outline"
  /\ recall.pc = "raised"
  /\ recall.edges = 1
  /\ recall.memory_failed
  /\ recall.error = MemoryError
  /\ recall.outline = NoOutline

\* C23: when the normalized payload has every required field, plan_search
\* enters the executor exactly once with the normalized payload and the
\* header, and the storefront call is made or an {error} result is stored;
\* the call is never silently skipped.
C23_ExecutorInvokedOnce ==
  (s_pc = "returned" /\ s_missing = << >>) =>
    /\ s_executor_calls =
         << [action |-> s_action, payload |-> s_payload, header_info |-> s_header] >>
    /\ (s_client_calls # << >> \/ s_shopware.kind = "error")

\* C23, the part that holds: with nothing missing the executor is entered
\* exactly once with the normalized payload and the header, the
\* Communication agent is not asked, and a client call that was made is the
\* one of the chosen action.
C23_ExecutorEnteredOnce ==
  (s_pc \in {"executing", "client_call", "returned"} /\ s_missing = << >>) =>
    /\ s_executor_calls =
         << [action |-> s_action, payload |-> s_payload, header_info |-> s_header] >>
    /\ s_comm_calls = << >>
    /\ s_client_calls \in {<< >>, << s_action >>}

\* C23 witness: without header information the executor was entered,
\* returned None without any client call or error, and plan_search returned.
C23_Witness ==
  /\ s_pc = "returned"
  /\ s_header = PyNone
  /\ s_missing = << >>
  /\ Len(s_executor_calls) = 1
  /\ s_client_calls = << >>
  /\ s_shopware = NoShopwareResponse
  /\ s_exception = NoException

\* C24: the missing list is exactly the required fields, in schema order,
\* whose payload value is absent, null, "" or []; 0, false and every other
\* value count as present, and an unknown action has an empty missing list.
C24_Lacking(f) == gate.payload[f] \in {KeyAbsent, PyNone, "", EmptyList}

C24_MissingListExact ==
  gate.pc = "done" =>
    IF ~gate.schema.known THEN gate.missing = << >>
    ELSE /\ \A k \in DOMAIN gate.missing :
              /\ C24_Lacking(gate.missing[k])
              /\ \E r \in DOMAIN gate.schema.required :
                   gate.schema.required[r] = gate.missing[k]
         /\ \A r \in DOMAIN gate.schema.required :
              C24_Lacking(gate.schema.required[r]) =>
                \E k \in DOMAIN gate.missing : gate.missing[k] = gate.schema.required[r]
         /\ \A a, b \in DOMAIN gate.missing :
              a < b =>
                \E r1, r2 \in DOMAIN gate.schema.required :
                  /\ r1 < r2
                  /\ gate.schema.required[r1] = gate.missing[a]
                  /\ gate.schema.required[r2] = gate.missing[b]

\* C24 witness: quantity 0 is present and the absent options key is missing;
\* the list keeps the schema's order.
C24_Witness ==
  /\ gate.pc = "done"
  /\ gate.schema = [known |-> TRUE, required |-> << "quantity", "options" >>]
  /\ gate.payload["quantity"] = IntZero
  /\ gate.payload["options"] = KeyAbsent
  /\ gate.missing = << "options" >>

\* C25: the message handed to the agent of intent index i is the i-th
\* fragment when the fragment list has one and the whole user message
\* otherwise; with a short or empty fragment list every intent is still
\* called and gets its step result.
C25_Expected(idx) == IF idx < Len(message_parts) THEN Fragment(idx + 1) ELSE UserMessage

C25_FragmentOrWholeMessage ==
  /\ \A k \in 1..Len(calls) :
       calls[k].path = "sequence" =>
         /\ calls[k].idx = k - 1
         /\ calls[k].message = C25_Expected(k - 1)
  /\ \A k \in 1..Len(sequence_results) :
       /\ sequence_results[k].step = k
       /\ sequence_results[k].message_part = C25_Expected(k - 1)
  /\ (pc = "done" /\ ~IsNonShopping(primary_intent)) =>
       Len(sequence_results) = Len(intent_sequence)

\* C25 witness: one fragment for two intents; the first call got the
\* fragment, the second the whole message, and both steps were recorded.
C25_Witness ==
  /\ pc = "done"
  /\ Len(intent_sequence) = 2
  /\ message_parts = << Fragment(1) >>
  /\ calls[1].message = Fragment(1)
  /\ calls[2].message = UserMessage
  /\ Len(sequence_results) = 2
  /\ sequence_results[2].message_part = UserMessage

\* C26: a non-shopping response always has a non-empty message.
C26_NonEmptyNonShoppingMessage ==
  (pc = "done" /\ IsNonShopping(primary_intent)) =>
    response.message \notin {PyNone, ""}

\* C26, the part that holds: the message is the plan's response_text when
\* the plan has that key, otherwise the first step's message when it has
\* one, otherwise the fixed default.
C26_MessagePrecedence ==
  (pc = "done" /\ IsNonShopping(primary_intent)) =>
    LET plan == response.plan
    IN /\ plan.has_response_text => response.message = plan.response_text
       /\ (~plan.has_response_text /\ plan.has_steps /\ plan.steps # << >>
             /\ plan.steps[1].has_message) =>
            response.message = plan.steps[1].message
       /\ (~plan.has_response_text
             /\ (~plan.has_steps \/ plan.steps = << >> \/ ~plan.steps[1].has_message)) =>
            response.message = "I can only help with shopping-related requests."

\* C26 witness: the plan carried an empty response_text and the response's
\* message is empty although the plan has a step with a message.
C26_Witness ==
  /\ pc = "done"
  /\ IsNonShopping(primary_intent)
  /\ response.plan = Plan(TRUE, <<StepAsk>>, TRUE, "")
  /\ response.message = ""

\* C28: merging the hints and normalizing only fill in what the extracted
\* payload lacks: a field the extraction holds (search, includes) has the
\* same value afterwards, whatever the hints and the description say.
C28_SameEntries(a, b) ==
  /\ a.shape = b.shape
  /\ Len(a.list) = Len(b.list)
  /\ {a.list[j] : j \in DOMAIN a.list} = {b.list[j] : j \in DOMAIN b.list}

C28_PresentFieldsKept ==
  merge.pc = "normalized" =>
    /\ (merge.extracted.search # PyNone => merge.payload.search = merge.extracted.search)
    /\ (merge.extracted.includes # Absent =>
          C28_SameEntries(merge.extracted.includes, merge.payload.includes))

\* C28, the part that holds: a search value of the extraction is kept, and
\* an absent one is filled from the first hint naming the action when that
\* hint has a search, otherwise from the description, otherwise not at all.
C28_FirstMatching ==
  IF \E j \in DOMAIN merge.hints : merge.hints[j].function = merge.action
    THEN merge.hints[CHOOSE j \in DOMAIN merge.hints :
                       /\ merge.hints[j].function = merge.action
                       /\ \A h \in 1..(j - 1) : merge.hints[h].function # merge.action].search
    ELSE PyNone

C28_ScalarKeptFirstHintUsed ==
  merge.pc = "normalized" =>
    /\ (merge.extracted.search # PyNone => merge.payload.search = merge.extracted.search)
    /\ (merge.extracted.search = PyNone =>
          merge.payload.search =
            IF C28_FirstMatching # PyNone THEN C28_FirstMatching ELSE merge.description)
    /\ merge.dict.search = merge.payload.search

\* C28 witness: the extraction held two include definitions for the alias
\* "product"; after the normalization the payload holds one.
C28_Witness ==
  /\ merge.pc = "normalized"
  /\ merge.hints = << >>
  /\ merge.extracted.includes =
       AsList(<< [alias |-> "product", fields |-> <<"id">>],
                 [alias |-> "product", fields |-> << >>] >>)
  /\ Len(merge.payload.includes.list) = 1

\* C27: a communication plan built on the missing-field path has a non-empty
\* missing list: it is the list the model reports when that is a non-empty
\* list, and the list the agent computed otherwise.
C27_MissingListNonEmpty ==
  (s_pc = "returned" /\ s_missing # << >>) =>
    /\ s_communication.missing # << >>
    /\ s_communication.missing =
         IF s_reply.shape = "parameters" /\ s_reply.missing_is_list /\ s_reply.missing # << >>
           THEN s_reply.missing
           ELSE s_missing

\* C27 witness: the model reported an empty list and the plan kept the
\* agent's list.
C27_Witness ==
  /\ s_pc = "returned"
  /\ s_missing = << "productId" >>
  /\ s_reply.shape = "parameters"
  /\ s_reply.missing_is_list
  /\ s_reply.missing = << >>
  /\ s_communication.missing = << "productId" >>

C29_ClientsClosedBefore(k) ==
  {memory.calls[j].client : j \in {h \in 1..(k - 1) :
      memory.calls[h].op = "close" /\ memory.calls[h].outcome = "returned"}}

C29_LastInitializeBefore(k) ==
  LET inits == {h \in 1..(k - 1) : memory.calls[h].op = "initialize"}
  IN IF inits = {} THEN NoClient
     ELSE memory.calls[CHOOSE h \in inits : \A g \in inits : g <= h].client

C29_GuardedByLifecycle ==
  \A k \in DOMAIN memory.calls :
    LET c == memory.calls[k]
    IN /\ (c.op \in MemoryOperations /\ c.phase = "open") =>
            /\ c.outcome \in {"returned", "raised"}
            /\ c.client # NoClient
            /\ c.client = C29_LastInitializeBefore(k)
            /\ c.client \notin C29_ClientsClosedBefore(k)
       /\ (c.op \in MemoryOperations /\ c.phase # "open") =>
            /\ c.outcome = "not_initialized"
            /\ c.client = NoClient
       /\ (c.op = "close" /\ c.phase # "open") =>
            /\ c.outcome = "returned"
            /\ c.client = NoClient
       /\ (c.op = "close" /\ c.phase = "open") => c.client = C29_LastInitializeBefore(k)

\* C29 witness: initialize, close, close again, initialize, and a search
\* that reached the second client.
C29_Witness ==
  /\ Len(memory.calls) = 5
  /\ memory.calls[1].op = "initialize"
  /\ memory.calls[2] = MemoryCall("close", "open", "returned", 1)
  /\ memory.calls[3] = MemoryCall("close", "closed", "returned", NoClient)
  /\ memory.calls[4].op = "initialize"
  /\ memory.calls[5] = MemoryCall("search_edges", "open", "returned", 2)

====
